---------------------------- MODULE Spec2Model ----------------------------
(***************************************************************************)
(* A model of the Ephemeral messaging core (furkngld/ephemeral):           *)
(*   - lib/crypto      (encryptMessage / decryptMessage, AES-GCM envelope) *)
(*   - lib/psbt-builder (buildOpReturnTransaction)                         *)
(*   - lib/bitcoin     (deriveTaprootAddresses)                            *)
(*   - lib/blockchain  (fetchSimulatedInscriptions)                        *)
(*   - context/EphemeralContext (login, sendMessage, importInbound,        *)
(*     checkForMessages, acknowledgeOutbound)                              *)
(*                                                                         *)
(* Strings are sequences of UTF-16 code units, byte arrays are sequences   *)
(* of 0..255.  Platform primitives the code calls (TextEncoder,            *)
(* TextDecoder, btoa, atob, String.prototype.trim) are modelled by what    *)
(* their standards say.  Cryptographic primitives (PBKDF2, AES-GCM) are    *)
(* replaced by small arithmetic stand-ins that keep their shape: a key     *)
(* derived from the secret only, a ciphertext as long as the plaintext, a  *)
(* 16-byte tag over key, nonce and ciphertext that decryption verifies.    *)
(***************************************************************************)
EXTENDS Integers, Sequences, FiniteSets, TLC

(***************************************************************************)
(* Generic helpers                                                         *)
(***************************************************************************)
Range(s) == {s[i] : i \in 1..Len(s)}

(* Sums and concatenations are taken by halves.                            *)
RECURSIVE SumRange(_, _, _)
SumRange(s, lo, hi) ==
  IF lo > hi THEN 0
  ELSE IF lo = hi THEN s[lo]
  ELSE SumRange(s, lo, (lo + hi) \div 2) + SumRange(s, (lo + hi) \div 2 + 1, hi)

SumSeq(s) == SumRange(s, 1, Len(s))

WeightedSum(s) == SumSeq(<<>> \o [i \in 1..Len(s) |-> i * s[i]])

RECURSIVE FlattenRange(_, _, _)
FlattenRange(ss, lo, hi) ==
  IF lo > hi THEN <<>>
  ELSE IF lo = hi THEN ss[lo]
  ELSE FlattenRange(ss, lo, (lo + hi) \div 2)
       \o FlattenRange(ss, (lo + hi) \div 2 + 1, hi)

Flatten(ss) == FlattenRange(ss, 1, Len(ss))

Min(a, b) == IF a <= b THEN a ELSE b
Max(a, b) == IF a >= b THEN a ELSE b

(* The value a JavaScript function yields for `null`; (a tuple no string   *)
(* equals: code units are never negative).                                 *)
Null == <<-1>>
(* The marker for "the call threw".                                        *)
Threw == <<-2>>

(* A trim that removes nothing.                                           *)
TrimNone(s) == s

(***************************************************************************)
(* String.prototype.trim: ECMAScript WhiteSpace and LineTerminator code    *)
(* units are removed at both ends.                                         *)
(***************************************************************************)
IsJsWhitespace(c) ==
  \/ c \in {9, 10, 11, 12, 13, 32, 160, 5760, 8232, 8233, 8239, 8287, 12288, 65279}
  \/ (c >= 8192 /\ c <= 8202)

Trim(s) ==
  LET n == Len(s)
      leading == Cardinality({i \in 1..n : \A j \in 1..i : IsJsWhitespace(s[j])})
      trailing == Cardinality({i \in 1..n : \A j \in i..n : IsJsWhitespace(s[j])})
  IN IF leading = n THEN <<>> ELSE SubSeq(s, leading + 1, n - trailing)

(***************************************************************************)
(* TextEncoder.encode: UTF-16 code units to UTF-8 bytes.  A surrogate pair *)
(* becomes one 4-byte sequence; an unpaired surrogate becomes U+FFFD.      *)
(***************************************************************************)
IsHighSurrogate(c) == c >= 55296 /\ c <= 56319
IsLowSurrogate(c) == c >= 56320 /\ c <= 57343

Utf8OfCodePoint(cp) ==
  IF cp < 128 THEN <<cp>>
  ELSE IF cp < 2048 THEN <<192 + (cp \div 64), 128 + (cp % 64)>>
  ELSE IF cp < 65536
    THEN <<224 + (cp \div 4096), 128 + ((cp \div 64) % 64), 128 + (cp % 64)>>
  ELSE <<240 + (cp \div 262144), 128 + ((cp \div 4096) % 64),
         128 + ((cp \div 64) % 64), 128 + (cp % 64)>>

(* The bytes code unit i contributes: a high surrogate followed by a low   *)
(* one gives the pair's four bytes and the low one nothing more.           *)
Utf8OfUnit(s, i) ==
  IF IsHighSurrogate(s[i]) /\ i < Len(s) /\ IsLowSurrogate(s[i + 1])
    THEN Utf8OfCodePoint(65536 + (s[i] - 55296) * 1024 + (s[i + 1] - 56320))
  ELSE IF IsLowSurrogate(s[i]) /\ i > 1 /\ IsHighSurrogate(s[i - 1])
    THEN <<>>
  ELSE IF IsHighSurrogate(s[i]) \/ IsLowSurrogate(s[i])
    THEN Utf8OfCodePoint(65533)
  ELSE Utf8OfCodePoint(s[i])

TextEncode(s) == Flatten(<<>> \o [i \in 1..Len(s) |-> Utf8OfUnit(s, i)])

(***************************************************************************)
(* TextDecoder.decode (utf-8, fatal = false, ignoreBOM = false): the       *)
(* WHATWG UTF-8 decoder.  A leading EF BB BF is skipped; a malformed       *)
(* sequence yields U+FFFD and the offending byte is read again.            *)
(***************************************************************************)
Utf16OfCodePoint(cp) ==
  IF cp < 65536 THEN <<cp>>
  ELSE <<55296 + ((cp - 65536) \div 1024), 56320 + ((cp - 65536) % 1024)>>

RECURSIVE Utf8Decode(_, _, _, _, _, _, _)
Utf8Decode(bytes, i, needed, seen, cp, lo, hi) ==
  IF i > Len(bytes)
    THEN (IF needed # 0 THEN <<65533>> ELSE <<>>)
  ELSE LET b == bytes[i] IN
    IF needed = 0 THEN
      IF b <= 127 THEN <<b>> \o Utf8Decode(bytes, i + 1, 0, 0, 0, 128, 191)
      ELSE IF b >= 194 /\ b <= 223
        THEN Utf8Decode(bytes, i + 1, 1, 0, b % 32, 128, 191)
      ELSE IF b >= 224 /\ b <= 239
        THEN Utf8Decode(bytes, i + 1, 2, 0, b % 16,
                        IF b = 224 THEN 160 ELSE 128,
                        IF b = 237 THEN 159 ELSE 191)
      ELSE IF b >= 240 /\ b <= 244
        THEN Utf8Decode(bytes, i + 1, 3, 0, b % 8,
                        IF b = 240 THEN 144 ELSE 128,
                        IF b = 244 THEN 143 ELSE 191)
      ELSE <<65533>> \o Utf8Decode(bytes, i + 1, 0, 0, 0, 128, 191)
    ELSE IF b < lo \/ b > hi
      THEN <<65533>> \o Utf8Decode(bytes, i, 0, 0, 0, 128, 191)
    ELSE IF seen + 1 = needed
      THEN Utf16OfCodePoint(cp * 64 + (b % 64))
           \o Utf8Decode(bytes, i + 1, 0, 0, 0, 128, 191)
    ELSE Utf8Decode(bytes, i + 1, needed, seen + 1, cp * 64 + (b % 64), 128, 191)

TextDecode(bytes) ==
  LET body == IF Len(bytes) >= 3 /\ SubSeq(bytes, 1, 3) = <<239, 187, 191>>
                THEN SubSeq(bytes, 4, Len(bytes)) ELSE bytes
  IN Utf8Decode(body, 1, 0, 0, 0, 128, 191)

(***************************************************************************)
(* btoa / atob.  bytesToBase64 builds a binary string of the bytes and     *)
(* calls btoa; base64ToUint8Array calls atob (forgiving-base64 decode:     *)
(* ASCII whitespace is dropped, padding is optional, any other character   *)
(* or a length of 1 mod 4 throws) and reads the char codes back.           *)
(***************************************************************************)
B64Char(v) ==
  IF v < 26 THEN 65 + v
  ELSE IF v < 52 THEN 97 + (v - 26)
  ELSE IF v < 62 THEN 48 + (v - 52)
  ELSE IF v = 62 THEN 43 ELSE 47

IsB64Char(c) ==
  \/ (c >= 65 /\ c <= 90) \/ (c >= 97 /\ c <= 122)
  \/ (c >= 48 /\ c <= 57) \/ c = 43 \/ c = 47

B64Value(c) ==
  IF c >= 65 /\ c <= 90 THEN c - 65
  ELSE IF c >= 97 /\ c <= 122 THEN c - 97 + 26
  ELSE IF c >= 48 /\ c <= 57 THEN c - 48 + 52
  ELSE IF c = 43 THEN 62 ELSE 63

(* The four characters of the group of up to three bytes that starts at   *)
(* byte k.                                                                 *)
B64EncodeGroup(bytes, k) ==
  IF k = Len(bytes)
    THEN <<B64Char(bytes[k] \div 4), B64Char((bytes[k] % 4) * 16), 61, 61>>
  ELSE IF k + 1 = Len(bytes)
    THEN <<B64Char(bytes[k] \div 4),
           B64Char((bytes[k] % 4) * 16 + (bytes[k + 1] \div 16)),
           B64Char((bytes[k + 1] % 16) * 4), 61>>
  ELSE <<B64Char(bytes[k] \div 4),
         B64Char((bytes[k] % 4) * 16 + (bytes[k + 1] \div 16)),
         B64Char((bytes[k + 1] % 16) * 4 + (bytes[k + 2] \div 64)),
         B64Char(bytes[k + 2] % 64)>>

bytesToBase64(bytes) ==
  Flatten(<<>> \o [g \in 1..((Len(bytes) + 2) \div 3) |->
                     B64EncodeGroup(bytes, 3 * g - 2)])

DropAsciiWhitespace(s) == SelectSeq(s, LAMBDA c : c \notin {9, 10, 12, 13, 32})

(* The bytes of the group of up to four characters that starts at k.       *)
B64DecodeGroup(cs, k) ==
  LET v1 == B64Value(cs[k])
      v2 == B64Value(cs[k + 1])
  IN IF k + 1 = Len(cs) THEN <<v1 * 4 + (v2 \div 16)>>
     ELSE LET v3 == B64Value(cs[k + 2]) IN
       IF k + 2 = Len(cs)
         THEN <<v1 * 4 + (v2 \div 16), (v2 % 16) * 16 + (v3 \div 4)>>
       ELSE <<v1 * 4 + (v2 \div 16), (v2 % 16) * 16 + (v3 \div 4),
              (v3 % 4) * 64 + B64Value(cs[k + 3])>>

B64DecodeGroups(cs) ==
  Flatten(<<>> \o [g \in 1..((Len(cs) + 3) \div 4) |-> B64DecodeGroup(cs, 4 * g - 3)])

StripPadding(s) ==
  IF Len(s) % 4 = 0 /\ Len(s) >= 1 /\ s[Len(s)] = 61
    THEN IF Len(s) >= 2 /\ s[Len(s) - 1] = 61
           THEN SubSeq(s, 1, Len(s) - 2) ELSE SubSeq(s, 1, Len(s) - 1)
  ELSE s

(* Threw when atob raises InvalidCharacterError, the bytes otherwise.      *)
base64ToUint8Array(base64) ==
  LET data == StripPadding(DropAsciiWhitespace(base64)) IN
    IF Len(data) % 4 = 1 \/ \E i \in 1..Len(data) : ~IsB64Char(data[i])
      THEN Threw
    ELSE B64DecodeGroups(data)


(***************************************************************************)
(* lib/crypto.  deriveAesKey imports the secret's bytes as PBKDF2 key      *)
(* material and derives one AES-GCM key with the fixed salt SALT_PHRASE.   *)
(* PBKDF2-HMAC-SHA256 is replaced by a polynomial hash of the same inputs  *)
(* (password bytes, salt bytes) into 0..255; the key is a function of the  *)
(* secret alone.                                                           *)
(***************************************************************************)
IV_LENGTH == 12
(* AES-GCM's authentication tag, 128 bits by default in Web Crypto.        *)
TAG_LENGTH == 16

(* "ephemeral::pbkdf2::v1" *)
SALT_PHRASE ==
  <<101, 112, 104, 101, 109, 101, 114, 97, 108, 58, 58, 112, 98, 107, 100,
    102, 50, 58, 58, 118, 49>>

Pbkdf2(password, salt) ==
  (31 * WeightedSum(password) + Len(password) + WeightedSum(salt)) % 251

(* String.prototype.normalize("NFKD") on the code units the model uses:    *)
(* e-acute decomposes to e and the combining acute accent, the ligature fi *)
(* to f and i; ASCII, surrogates and U+FEFF have no decomposition.         *)
NormalizeNFKD(s) ==
  Flatten(<<>> \o [i \in 1..Len(s) |->
                     IF s[i] = 233 THEN <<101, 769>>
                     ELSE IF s[i] = 64257 THEN <<102, 105>>
                     ELSE <<s[i]>>])

deriveAesKey(secret) ==
  Pbkdf2(TextEncode(NormalizeNFKD(secret)), TextEncode(SALT_PHRASE))

(* AES-GCM stand-in: byte i of the ciphertext is the plaintext byte plus a *)
(* keystream byte of (key, iv, i); the tag is TAG_LENGTH bytes computed    *)
(* from key, iv and ciphertext.                                            *)
KeyStream(key, ivSum, i) == (key * 7 + ivSum + 13 * i) % 256

GcmTag(key, iv, ct) ==
  LET base == key + 3 * WeightedSum(iv) + 5 * WeightedSum(ct) + Len(ct)
  IN <<>> \o [j \in 1..TAG_LENGTH |-> (base + 17 * j) % 256]

(* crypto.subtle.encrypt: ciphertext followed by the tag.                  *)
AesGcmEncrypt(key, iv, plain) ==
  LET ivSum == SumSeq(iv)
      ct == <<>> \o [i \in 1..Len(plain) |->
                       (plain[i] + KeyStream(key, ivSum, i)) % 256]
  IN ct \o GcmTag(key, iv, ct)

(* crypto.subtle.decrypt: Threw (OperationError) when the data is shorter  *)
(* than a tag or the tag does not verify, the plaintext bytes otherwise.   *)
AesGcmDecrypt(key, iv, data) ==
  IF Len(data) < TAG_LENGTH THEN Threw
  ELSE LET ct == SubSeq(data, 1, Len(data) - TAG_LENGTH)
           tag == SubSeq(data, Len(data) - TAG_LENGTH + 1, Len(data))
           ivSum == SumSeq(iv)
       IN IF tag # GcmTag(key, iv, ct) THEN Threw
          ELSE <<>> \o [i \in 1..Len(ct) |->
                         (ct[i] + 256 - KeyStream(key, ivSum, i)) % 256]

concatBuffers(iv, ciphertext) == iv \o ciphertext

(* encryptMessage(secret, message) with the nonce getRandomValues drew.    *)
encryptMessage(secret, message, iv) ==
  IF Trim(message) = <<>> THEN Threw
  ELSE bytesToBase64(
         concatBuffers(iv, AesGcmEncrypt(deriveAesKey(secret), iv, TextEncode(message))))

(* Uint8Array.prototype.slice(0, IV_LENGTH) and slice(IV_LENGTH).          *)
SliceTo(bytes, n) == SubSeq(bytes, 1, Min(n, Len(bytes)))
SliceFrom(bytes, n) == SubSeq(bytes, n + 1, Len(bytes))

decryptMessageNoCatch(secret, encryptedBase64) ==
  LET payload == base64ToUint8Array(encryptedBase64) IN
    IF payload = Threw THEN Threw
    ELSE LET plainBuffer == AesGcmDecrypt(deriveAesKey(secret),
                                          SliceTo(payload, IV_LENGTH),
                                          SliceFrom(payload, IV_LENGTH))
         IN IF plainBuffer = Threw THEN Threw ELSE TextDecode(plainBuffer)

(* A decryptMessage without its try/catch, to show what the catch is for.  *)
decryptMessageRaising(secret, encryptedBase64) ==
  decryptMessageNoCatch(secret, encryptedBase64)

(* decryptMessage: the whole body is inside try/catch; the catch returns   *)
(* null.                                                                   *)
decryptMessage(secret, encryptedBase64) ==
  LET r == decryptMessageNoCatch(secret, encryptedBase64) IN
    IF r = Threw THEN Null ELSE r


(***************************************************************************)
(* Mnemonics.  normaliseMnemonic trims, collapses each run of whitespace   *)
(* to one space and lowercases.  bip39.validateMnemonic is replaced by a   *)
(* stand-in with the shape of BIP39: every word must be in the word list   *)
(* (here the sixteen one-letter words "a".."p", four bits each), and the   *)
(* last word must carry the checksum of the words before it.               *)
(***************************************************************************)
ToLowerCase(s) ==
  <<>> \o [i \in 1..Len(s) |->
             IF s[i] >= 65 /\ s[i] <= 90 THEN s[i] + 32 ELSE s[i]]

(* replace(/\s+/g, ' '): the first unit of a run of whitespace becomes a   *)
(* space and the rest of the run disappears.                               *)
CollapseWhitespace(s) ==
  Flatten(<<>> \o [i \in 1..Len(s) |->
                     IF ~IsJsWhitespace(s[i]) THEN <<s[i]>>
                     ELSE IF i > 1 /\ IsJsWhitespace(s[i - 1]) THEN <<>>
                     ELSE <<32>>])

normaliseMnemonic(mnemonic) == ToLowerCase(CollapseWhitespace(Trim(mnemonic)))

(* String.prototype.split(' '): the pieces between single spaces.          *)
Words(s) ==
  LET cuts == {0, Len(s) + 1} \cup {i \in 1..Len(s) : s[i] = 32}
      Cut(k) == CHOOSE c \in cuts : Cardinality({d \in cuts : d < c}) = k
  IN <<>> \o [k \in 1..(Cardinality(cuts) - 1) |->
                SubSeq(s, Cut(k - 1) + 1, Cut(k) - 1)]

InWordList(w) == Len(w) = 1 /\ w[1] >= 97 /\ w[1] <= 112

MnemonicChecksum(ws) ==
  WeightedSum(<<>> \o [i \in 1..(Len(ws) - 1) |-> ws[i][1] - 97]) % 16

(* A validation that looks at the words and not at the checksum.          *)
validateMnemonicNoChecksum(mnemonic) ==
  LET ws == Words(mnemonic) IN
    /\ Len(ws) % 3 = 0 /\ Len(ws) >= 12 /\ Len(ws) <= 24
    /\ \A i \in 1..Len(ws) : InWordList(ws[i])

validateMnemonic(mnemonic) ==
  LET ws == Words(mnemonic) IN
    /\ Len(ws) % 3 = 0 /\ Len(ws) >= 12 /\ Len(ws) <= 24
    /\ \A i \in 1..Len(ws) : InWordList(ws[i])
    /\ ws[Len(ws)][1] - 97 = MnemonicChecksum(ws)

(***************************************************************************)
(* lib/bitcoin deriveTaprootAddresses.  The BIP39 seed and the BIP86 child *)
(* keys are replaced by stand-ins: the seed is a hash of the normalised    *)
(* mnemonic, address i is the pair (seed, i).  Threw for an invalid        *)
(* mnemonic or a count <= 0.                                               *)
(***************************************************************************)
mnemonicToSeed(normalized) == Pbkdf2(TextEncode(normalized), <<109, 110, 101, 109, 111, 110, 105, 99>>)

P2trAddress(seed, i) == <<seed, i>>

(* A loop that starts at path index 1.                                     *)
deriveFromIndexOne(secret, count) ==
  LET normalized == ToLowerCase(CollapseWhitespace(Trim(secret))) IN
    IF ~validateMnemonic(normalized) THEN [threw |-> TRUE, addresses |-> <<>>]
    ELSE IF count <= 0 THEN [threw |-> TRUE, addresses |-> <<>>]
    ELSE [threw |-> FALSE,
          addresses |-> <<>> \o [k \in 1..count |->
                                   P2trAddress(mnemonicToSeed(normalized), k)]]

(* The outcome of deriveTaprootAddresses: it threw, or the addresses the   *)
(* loop pushed for i = 0 .. count - 1.                                     *)
derive(secret, count) ==
  LET normalized == ToLowerCase(CollapseWhitespace(Trim(secret))) IN
    IF ~validateMnemonic(normalized) THEN [threw |-> TRUE, addresses |-> <<>>]
    ELSE IF count <= 0 THEN [threw |-> TRUE, addresses |-> <<>>]
    ELSE [threw |-> FALSE,
          addresses |-> <<>> \o [k \in 1..count |->
                                   P2trAddress(mnemonicToSeed(normalized), k - 1)]]

deriveTaprootAddresses(secret, count) ==
  IF derive(secret, count).threw THEN Threw ELSE derive(secret, count).addresses


(***************************************************************************)
(* Bounds of the model and the values its inputs are drawn from.           *)
(***************************************************************************)
(* Addresses derived per session (DEFAULT_ADDRESS_COUNT, 8 in the source,  *)
(* is scaled down; the claims are stated for any count m).                 *)
AddressCount == 3
(* Calls of the handlers, of any kind, in one behaviour of the session     *)
(* model.                                                                  *)
MaxCalls == 3
(* Scans (of a login or of checkForMessages) that meet a failing request.  *)
MaxFaults == 1
(* Ticks of the wall clock (Date.now() advances by one second per tick).   *)
MaxTicks == 1
(* Calls that may be awaiting a result at the same time.                   *)
MaxInFlight == 2
(* Transactions broadcast in one behaviour of the session model.           *)
MaxTxs == 1
(* The scan model: overlapping scans of a growing ledger.                  *)
ScanMaxScans == 2
ScanMaxTxs == 2
(* The send model: enough sends to wrap around the address list.           *)
SendMaxSends == 4
SendMaxTxs == 1

(* "a b c d e f g h i j k i" and "d g j m p c f i l o b o": two mnemonics  *)
(* that pass validateMnemonic.                                             *)
Secret1 ==
  <<97, 32, 98, 32, 99, 32, 100, 32, 101, 32, 102, 32, 103, 32, 104, 32,
    105, 32, 106, 32, 107, 32, 105>>
Secret2 ==
  <<100, 32, 103, 32, 106, 32, 109, 32, 112, 32, 99, 32, 102, 32, 105, 32,
    108, 32, 111, 32, 98, 32, 111>>
(* Secret1 typed with a leading tab, upper case and doubled spaces.        *)
Secret1Typed == <<9, 65, 32, 32>> \o SubSeq(Secret1, 3, Len(Secret1)) \o <<32>>
(* Eleven words, and twelve words whose checksum word is wrong.            *)
PhraseShort == SubSeq(Secret1, 1, 21)
PhraseBadChecksum == SubSeq(Secret1, 1, 22) \o <<97>>

RawPhrases == {Secret1Typed, Secret2, PhraseShort, PhraseBadChecksum}

(* "hi", " yo" and a message of spaces only.                               *)
TextHi == <<104, 105>>
TextYo == <<32, 121, 111>>
TextBlank == <<32, 32>>
RawMessages == {TextHi, TextBlank}

Nonce1 == <<>> \o [i \in 1..IV_LENGTH |-> i]
Nonce2 == <<>> \o [i \in 1..IV_LENGTH |-> (37 * i) % 256]
Nonces == {Nonce1}

Addresses1 == deriveTaprootAddresses(Secret1, AddressCount)
Addresses2 == deriveTaprootAddresses(Secret2, AddressCount)

PayloadHi1 == encryptMessage(Secret1, TextHi, Nonce1)
PayloadYo1 == encryptMessage(Secret1, TextYo, Nonce2)
PayloadHi2 == encryptMessage(Secret2, TextHi, Nonce1)
(* PayloadHi1 with its last ciphertext character changed, cut short, and   *)
(* with a character outside the base64 alphabet.                           *)
PayloadCorrupt ==
  [PayloadHi1 EXCEPT ![20] = IF PayloadHi1[20] = 65 THEN 66 ELSE 65]
PayloadTruncated == SubSeq(PayloadHi1, 1, 16)
PayloadNotBase64 == <<35>> \o SubSeq(PayloadHi1, 2, Len(PayloadHi1))

(***************************************************************************)
(* The ledger as the indexer (mempool.space) reports it.  A transaction    *)
(* has an id, the addresses of its outputs (vout[].scriptpubkey_address),  *)
(* the text of its OP_RETURN output (Null when it has none), its block     *)
(* time in seconds (0 when unconfirmed) and the times its metadata         *)
(* reports: received, firstSeen, first_seen, time, status.block_time (0    *)
(* for an absent field).                                                   *)
(***************************************************************************)
Tx(n, vout, opReturn, blockTime, meta) ==
  [txid |-> <<"tx", n>>, vout |-> vout, opReturn |-> opReturn,
   block_time |-> blockTime, meta |-> meta]

NoMeta == <<0, 0, 0, 0, 0>>

(* 1: one mailbox of Secret1, confirmed.  2: two mailboxes of Secret1 in   *)
(* one transaction, unconfirmed, first seen at second 1.  3: a mailbox of  *)
(* each secret, encrypted under Secret2.  4: corrupt payload, unconfirmed  *)
(* with no time reported.                                                  *)
TxUniverse ==
  << Tx(1, <<Addresses1[1]>>, PayloadHi1, 2, NoMeta),
     Tx(2, <<Addresses1[1], Addresses1[2]>>, PayloadYo1, 0, <<0, 1, 0, 0, 0>>),
     Tx(3, <<Addresses1[2], Addresses2[1]>>, PayloadHi2, 1, NoMeta),
     Tx(4, <<Addresses1[3]>>, PayloadCorrupt, 0, NoMeta),
     Tx(5, <<Addresses1[1]>>, PayloadTruncated, 3, NoMeta),
     Tx(6, <<Addresses1[2]>>, PayloadNotBase64, 3, NoMeta) >>

(* The first n transactions of the universe.                               *)
FirstTxs(n) == SubSeq(TxUniverse, 1, Min(n, Len(TxUniverse)))


(* extractOpReturnData: the trimmed text of the OP_RETURN output, null     *)
(* when there is none or it is empty.                                      *)
extractOpReturnData(tx) ==
  IF tx.opReturn = Null THEN Null
  ELSE LET text == Trim(tx.opReturn) IN IF text = <<>> THEN Null ELSE text

(* The block time and nothing else: 0 for an unconfirmed transaction.      *)
ResolveTimestampBlockOnly(tx, metaOk, localNow) == tx.block_time * 1000

(* Lines 178-217: block time, else the first positive metadata time (when  *)
(* the metadata request succeeds), else the local time.                    *)
ResolveTimestamp(tx, metaOk, localNow) ==
  LET candidateTimes == SelectSeq(tx.meta, LAMBDA v : v > 0) IN
    IF tx.block_time * 1000 # 0 THEN tx.block_time * 1000
    ELSE IF metaOk /\ candidateTimes # <<>> THEN candidateTimes[1] * 1000
    ELSE localNow

(* Array.prototype.sort((a, b) => a.timestamp - b.timestamp): stable.      *)
RECURSIVE InsertByTimestamp(_, _)
InsertByTimestamp(sorted, x) ==
  IF sorted = <<>> THEN <<x>>
  ELSE IF sorted[Len(sorted)].timestamp <= x.timestamp THEN Append(sorted, x)
  ELSE Append(InsertByTimestamp(SubSeq(sorted, 1, Len(sorted) - 1), x),
              sorted[Len(sorted)])

RECURSIVE SortByTimestamp(_)
SortByTimestamp(s) ==
  IF s = <<>> THEN <<>>
  ELSE InsertByTimestamp(SortByTimestamp(SubSeq(s, 1, Len(s) - 1)), s[Len(s)])

(* The outcome of one scan's network requests: the addresses whose         *)
(* transaction list request failed, the transactions whose raw-hex request *)
(* failed, those whose metadata request failed.                            *)
NetOk == [addr |-> {}, hex |-> {}, meta |-> {}]

(* A loop that does not ask whether the address is among the outputs.      *)
RECURSIVE EntriesForAddressAnyOutput(_, _, _, _)
EntriesForAddressAnyOutput(address, txs, net, localNow) ==
  IF txs = <<>> THEN <<>>
  ELSE LET tx == Head(txs)
           rest == EntriesForAddressAnyOutput(address, Tail(txs), net, localNow)
           opReturnData == extractOpReturnData(tx)
       IN IF tx.txid \in net.hex THEN rest
          ELSE IF opReturnData = Null THEN rest
          ELSE <<[id |-> tx.txid, address |-> address,
                  payload |-> opReturnData,
                  timestamp |-> ResolveTimestamp(tx, tx.txid \notin net.meta, localNow)]>>
               \o rest

(* The entries the loop over one address pushes (lines 143-234), given the *)
(* ledger's transactions in the order the indexer lists them.              *)
RECURSIVE EntriesForAddress(_, _, _, _)
EntriesForAddress(address, txs, net, localNow) ==
  IF txs = <<>> THEN <<>>
  ELSE LET tx == Head(txs)
           rest == EntriesForAddress(address, Tail(txs), net, localNow)
           isRecipient == \E k \in 1..Len(tx.vout) : tx.vout[k] = address
           opReturnData == extractOpReturnData(tx)
       IN IF ~isRecipient THEN rest
          ELSE IF tx.txid \in net.hex THEN rest
          ELSE IF opReturnData = Null THEN rest
          ELSE <<[id |-> tx.txid, address |-> address,
                  payload |-> opReturnData,
                  timestamp |-> ResolveTimestamp(tx, tx.txid \notin net.meta, localNow)]>>
               \o rest

(* A loop over the addresses that ends at the first failed request.        *)
RECURSIVE fetchRealBlockchainTransactionsStopping(_, _, _, _)
fetchRealBlockchainTransactionsStopping(addrs, txs, net, localNow) ==
  IF addrs = <<>> THEN <<>>
  ELSE IF Head(addrs) \in net.addr THEN <<>>
  ELSE EntriesForAddress(Head(addrs), txs, net, localNow)
         \o fetchRealBlockchainTransactionsStopping(Tail(addrs), txs, net, localNow)

RECURSIVE fetchRealBlockchainTransactions(_, _, _, _)
fetchRealBlockchainTransactions(addrs, txs, net, localNow) ==
  IF addrs = <<>> THEN <<>>
  ELSE (IF Head(addrs) \in net.addr THEN <<>>
        ELSE EntriesForAddress(Head(addrs), txs, net, localNow))
       \o fetchRealBlockchainTransactions(Tail(addrs), txs, net, localNow)

(* A fallback that returns the queued entries and leaves them queued.      *)
fetchSimulatedInscriptionsKeeping(addrs, txs, queue, net, localNow) ==
  IF addrs = <<>> THEN [results |-> <<>>, queue |-> queue]
  ELSE LET chain == fetchRealBlockchainTransactions(addrs, txs, net, localNow)
           matching == SelectSeq(queue, LAMBDA item : item.address \in Range(addrs))
       IN IF chain = <<>> /\ matching # <<>>
            THEN [results |-> SortByTimestamp(matching), queue |-> queue]
          ELSE [results |-> SortByTimestamp(chain), queue |-> queue]

(* fetchSimulatedInscriptions: the ledger's entries, or, when there are    *)
(* none, the locally queued entries for these addresses, which leave the   *)
(* queue.  Yields the sorted results and the queue as it is left.          *)
fetchSimulatedInscriptions(addrs, txs, queue, net, localNow) ==
  IF addrs = <<>> THEN [results |-> <<>>, queue |-> queue]
  ELSE LET chain == fetchRealBlockchainTransactions(addrs, txs, net, localNow)
           matching == SelectSeq(queue, LAMBDA item : item.address \in Range(addrs))
           remaining == SelectSeq(queue,
                          LAMBDA item : ~\E k \in 1..Len(matching) : matching[k].id = item.id)
       IN IF chain = <<>> /\ matching # <<>>
            THEN [results |-> SortByTimestamp(matching), queue |-> remaining]
          ELSE [results |-> SortByTimestamp(chain), queue |-> queue]


(***************************************************************************)
(* State.                                                                  *)
(*                                                                         *)
(* EphemeralProvider's React state and ref (lines 520-536).  A state       *)
(* setter takes effect at the end of the synchronous segment that calls    *)
(* it; JavaScript runs one segment at a time, so every action below is one *)
(* segment of one call: from the call, or from the resumption of an await, *)
(* to the next await or the return.  A callback reads `secret` and         *)
(* `addresses` from the render it was created in: a call copies them when  *)
(* it starts.                                                              *)
(***************************************************************************)
VARIABLES
  secret,              \* string | Null
  isLoggedIn,
  isLoading,
  error,               \* an error text, "null" for null
  addresses,
  messages,            \* the timeline
  pendingOutbound,
  seenInscriptionIds,  \* the ref's current set
  chain,               \* every transaction that is ever broadcast
  ledger,              \* ids of the transactions the indexer knows
  inbox,               \* localStorage: secret -> queued entries
  now,                 \* Date.now()
  uuid,                \* number of random ids drawn so far
  logins,              \* every login call so far, in call order
  sends,               \* every sendMessage call so far
  scans,               \* every checkForMessages call so far
  imports,             \* every importInbound call so far
  limits,              \* the bounds of this behaviour: calls, ticks, calls in flight, faults
  epoch,               \* history: number of logins completed
  enqueued,            \* history: number of entries queued locally so far
  sendLog,             \* history: the outbound messages recorded since the last login
  cry,                 \* the crypto round-trip model
  bld                  \* the transaction-builder model

reactVars == <<secret, isLoggedIn, isLoading, error, addresses, messages,
               pendingOutbound, seenInscriptionIds>>
envVars == <<ledger, inbox, now, uuid>>
callVars == <<logins, sends, scans, imports>>
histVars == <<limits, epoch, enqueued, sendLog>>
sessionVars == <<reactVars, envVars, callVars, histVars>>
pureVars == <<cry, bld>>
vars == <<sessionVars, chain, pureVars>>

Unused == [pc |-> "unused"]

NoError == "null"

(* A sortMessages that leaves the order of arrival.                        *)
sortMessagesUnsorted(msgs) == msgs

(* Lines 491-493: a copy sorted by ascending timestamp.                    *)
sortMessages(msgs) == SortByTimestamp(msgs)

NullMessage == [null |-> TRUE]
ThrewMessage == [threw |-> TRUE]

(* A decryptInscription whose promise rejects where decryptMessage yields  *)
(* null.                                                                   *)
decryptInscriptionRaising(sec, inscription) ==
  LET decrypted == decryptMessage(sec, inscription.payload) IN
    IF decrypted = Threw \/ decrypted = Null \/ decrypted = <<>> THEN ThrewMessage
    ELSE [id |-> inscription.id, direction |-> "inbound", content |-> decrypted,
          encrypted |-> inscription.payload, address |-> inscription.address,
          timestamp |-> inscription.timestamp]

(* decryptInscription: null when decryptMessage yields null or "".  (The   *)
(* two records stand for null and for a rejected promise where a message   *)
(* record is expected.)                                                    *)
decryptInscription(sec, inscription) ==
  LET decrypted == decryptMessage(sec, inscription.payload) IN
    IF decrypted = Threw THEN ThrewMessage
    ELSE IF decrypted = Null \/ decrypted = <<>> THEN NullMessage
    ELSE [id |-> inscription.id, direction |-> "inbound", content |-> decrypted,
          encrypted |-> inscription.payload, address |-> inscription.address,
          timestamp |-> inscription.timestamp]

(* The transactions of the ledger in the order the indexer lists them.     *)
LedgerTxs == SelectSeq(chain, LAMBDA tx : tx.txid \in ledger)

(* The outcomes of a scan's requests the model considers: all succeed,     *)
(* the request for the first address fails, the raw-hex request of the     *)
(* first transaction fails, or every metadata request fails.               *)
Faulty(calls) ==
  Cardinality({k \in 1..Len(calls) : "faulty" \in DOMAIN calls[k] /\ calls[k].faulty})
FaultsUsed == Faulty(logins) + Faulty(scans)

NetOutcomes(addrs) ==
  IF FaultsUsed < limits.faults
    THEN { NetOk,
           [NetOk EXCEPT !.addr = {addrs[1]}],
           [NetOk EXCEPT !.hex = {chain[1].txid}],
           [NetOk EXCEPT !.meta = ledger] }
  ELSE {NetOk}

InboxOf(sec) == IF sec \in DOMAIN inbox THEN inbox[sec] ELSE <<>>

SessionVarsInit(lim, txs) ==
  /\ secret = Null
  /\ isLoggedIn = FALSE
  /\ isLoading = FALSE
  /\ error = NoError
  /\ addresses = <<>>
  /\ messages = <<>>
  /\ pendingOutbound = <<>>
  /\ seenInscriptionIds = {}
  /\ chain = txs
  /\ ledger = {}
  /\ inbox = [s \in {Secret1, Secret2} |-> <<>>]
  /\ now = 1000
  /\ uuid = 0
  /\ logins = <<>>
  /\ sends = <<>>
  /\ scans = <<>>
  /\ imports = <<>>
  /\ limits = lim
  /\ epoch = 0
  /\ enqueued = 0
  /\ sendLog = <<>>

(* The session model does not use the models of the pure functions.        *)
SessionInit(lim, txs) ==
  /\ SessionVarsInit(lim, txs)
  /\ cry = Unused
  /\ bld = Unused

(***************************************************************************)
(* The environment: a transaction reaches the indexer, the clock advances, *)
(* a payload is queued locally (window.EphemeralSim.enqueueInbound).       *)
(***************************************************************************)
Publish ==
  /\ Cardinality(ledger) < Len(chain)
  /\ ledger' = ledger \cup {chain[Cardinality(ledger) + 1].txid}
  /\ UNCHANGED <<reactVars, inbox, now, uuid, callVars, histVars, chain, pureVars>>

Tick ==
  /\ now' = now + 1000
  /\ UNCHANGED <<reactVars, ledger, inbox, uuid, callVars, histVars, chain, pureVars>>

enqueueSimulatedInbound(sec, address, payload) ==
  /\ inbox' = [inbox EXCEPT ![sec] =
                 Append(@, [id |-> <<"uuid", uuid + 1>>, address |-> address,
                            payload |-> payload, timestamp |-> now])]
  /\ uuid' = uuid + 1
  /\ enqueued' = enqueued + 1
  /\ UNCHANGED <<reactVars, ledger, now, callVars, limits, epoch, sendLog, chain, pureVars>>


(***************************************************************************)
(* login (lines 663-728).                                                  *)
(***************************************************************************)
(* Lines 671-686: validation; a rejected phrase sets the error and         *)
(* isLoggedIn = false and returns.                                         *)
LoginCall(rawSecret) ==
  /\ LET normalised == normaliseMnemonic(rawSecret)
         words == Words(normalised)
     IN IF Len(words) # 12
          THEN /\ error' = "The secret phrase must contain exactly 12 words."
               /\ isLoggedIn' = FALSE
               /\ logins' = Append(logins, [pc |-> "rejected", rawSecret |-> rawSecret])
               /\ UNCHANGED isLoading
        ELSE IF ~validateMnemonic(normalised)
          THEN /\ error' = "The provided secret phrase is not a valid BIP39 mnemonic."
               /\ isLoggedIn' = FALSE
               /\ logins' = Append(logins, [pc |-> "rejected", rawSecret |-> rawSecret])
               /\ UNCHANGED isLoading
        ELSE /\ isLoading' = TRUE
             /\ logins' = Append(logins, [pc |-> "derive", rawSecret |-> rawSecret,
                                           normalised |-> normalised])
             /\ UNCHANGED <<error, isLoggedIn>>
  /\ UNCHANGED <<secret, addresses, messages, pendingOutbound, seenInscriptionIds,
                 envVars, sends, scans, imports, histVars, chain, pureVars>>

(* A catch block that reports the error and keeps the session it found.   *)
LoginCatchKeepingSession(i) ==
  /\ error' = "We could not derive your keys. Please retry with a valid mnemonic."
  /\ isLoggedIn' = FALSE
  /\ isLoading' = FALSE
  /\ logins' = [logins EXCEPT ![i] =
                  [pc |-> "failed", rawSecret |-> logins[i].rawSecret,
                   faulty |-> "faulty" \in DOMAIN logins[i] /\ logins[i].faulty]]
  /\ epoch' = epoch + 1
  /\ sendLog' = <<>>
  /\ UNCHANGED <<secret, addresses, messages, pendingOutbound, seenInscriptionIds>>

(* Lines 716-727: the catch block and the finally block.                   *)
LoginCatch(i) ==
  /\ error' = "We could not derive your keys. Please retry with a valid mnemonic."
  /\ isLoggedIn' = FALSE
  /\ secret' = Null
  /\ addresses' = <<>>
  /\ messages' = <<>>
  /\ pendingOutbound' = <<>>
  /\ seenInscriptionIds' = {}
  /\ isLoading' = FALSE
  /\ logins' = [logins EXCEPT ![i] =
                  [pc |-> "failed", rawSecret |-> logins[i].rawSecret,
                   faulty |-> "faulty" \in DOMAIN logins[i] /\ logins[i].faulty]]
  /\ epoch' = epoch + 1
  /\ sendLog' = <<>>

(* Lines 689-696: the addresses are derived and the first scan is made.    *)
(* derived = FALSE stands for a derivation that throws ("Derived key is    *)
(* missing", "Failed to derive a Taproot address") and for a first scan    *)
(* that throws (the storage fallback of fetchSimulatedInscriptions is not  *)
(* inside its try): both reach the catch block before anything is set.    *)
LoginFetch(i, derived) ==
  /\ i \in 1..Len(logins)
  /\ logins[i].pc = "derive"
  /\ LET p == logins[i]
         derivedAddresses ==
           IF derived THEN deriveTaprootAddresses(p.normalised, AddressCount)
           ELSE Threw
     IN IF derivedAddresses = Threw
          THEN /\ LoginCatch(i)
               /\ UNCHANGED <<envVars, limits, enqueued>>
        ELSE /\ \E net \in NetOutcomes(derivedAddresses) :
                LET got == fetchSimulatedInscriptions(
                             derivedAddresses, LedgerTxs, InboxOf(p.normalised), net, now)
                IN /\ logins' = [logins EXCEPT ![i] =
                                   [pc |-> "decrypt", rawSecret |-> p.rawSecret,
                                    normalised |-> p.normalised,
                                    derivedAddresses |-> derivedAddresses,
                                    inscriptions |-> got.results,
                                    faulty |-> net # NetOk]]
                   /\ inbox' = [inbox EXCEPT ![p.normalised] = got.queue]
             /\ UNCHANGED <<reactVars, ledger, now, uuid, histVars>>
  /\ UNCHANGED <<sends, scans, imports, chain, pureVars>>

(* Lines 698-715 and the finally block: every inscription is decrypted,    *)
(* the ref is replaced and the state is set.                               *)
RECURSIVE DecryptAll(_, _)
DecryptAll(sec, inscriptions) ==
  IF inscriptions = <<>> THEN <<>>
  ELSE LET d == decryptInscription(sec, Head(inscriptions)) IN
         (IF d = NullMessage THEN <<>> ELSE <<d>>) \o DecryptAll(sec, Tail(inscriptions))

(* A login that merges its messages into the timeline it finds and keeps   *)
(* the pending list.                                                       *)
LoginCommitMerging(i) ==
  /\ i \in 1..Len(logins)
  /\ logins[i].pc = "decrypt"
  /\ LET p == logins[i]
         decryptedMessages == DecryptAll(p.normalised, p.inscriptions)
     IN IF \E k \in 1..Len(p.inscriptions) :
             decryptInscription(p.normalised, p.inscriptions[k]) = ThrewMessage
          THEN LoginCatch(i)
        ELSE /\ seenInscriptionIds' =
                  {decryptedMessages[k].id : k \in 1..Len(decryptedMessages)}
             /\ secret' = p.normalised
             /\ addresses' = p.derivedAddresses
             /\ messages' = sortMessages(messages \o decryptedMessages)
             /\ pendingOutbound' = pendingOutbound
             /\ isLoggedIn' = TRUE
             /\ error' = NoError
             /\ isLoading' = FALSE
             /\ logins' = [logins EXCEPT ![i] =
                                [pc |-> "done", rawSecret |-> p.rawSecret,
                                 faulty |-> p.faulty]]
             /\ epoch' = epoch + 1
             /\ sendLog' = <<>>
  /\ UNCHANGED <<envVars, sends, scans, imports, limits, enqueued, chain, pureVars>>

LoginCommit(i) ==
  /\ i \in 1..Len(logins)
  /\ logins[i].pc = "decrypt"
  /\ LET p == logins[i]
         decryptedMessages == DecryptAll(p.normalised, p.inscriptions)
     IN IF \E k \in 1..Len(p.inscriptions) :
             decryptInscription(p.normalised, p.inscriptions[k]) = ThrewMessage
          THEN LoginCatch(i)
        ELSE /\ seenInscriptionIds' =
                  {decryptedMessages[k].id : k \in 1..Len(decryptedMessages)}
             /\ secret' = p.normalised
             /\ addresses' = p.derivedAddresses
             /\ messages' = sortMessages(decryptedMessages)
             /\ pendingOutbound' = <<>>
             /\ isLoggedIn' = TRUE
             /\ error' = NoError
             /\ isLoading' = FALSE
             /\ logins' = [logins EXCEPT ![i] =
                                [pc |-> "done", rawSecret |-> p.rawSecret,
                                 faulty |-> p.faulty]]
             /\ epoch' = epoch + 1
             /\ sendLog' = <<>>
  /\ UNCHANGED <<envVars, sends, scans, imports, limits, enqueued, chain, pureVars>>


(***************************************************************************)
(* checkForMessages (lines 849-898).  A call that finds no secret throws   *)
(* and one that finds no address returns: neither changes the state.       *)
(***************************************************************************)
ScansDone == {k \in 1..Len(scans) : scans[k].pc = "done"}

CheckCall ==
  /\ secret # Null
  /\ addresses # <<>>
  /\ isLoading' = TRUE
  /\ scans' = Append(scans,
       [pc |-> "fetch", secret |-> secret, addresses |-> addresses,
        todo |-> <<>>, candidates |-> <<>>,
        \* history: the session the call was made in, the calls that had
        \* returned by then, the ledger it read, what it fetched, the ids
        \* that passed the seen-set test, the ids it marked seen and the
        \* outcome of its requests
        epoch |-> epoch, after |-> ScansDone, ledgerAt |-> {}, fetched |-> <<>>,
        passed |-> {}, added |-> {}, faulty |-> FALSE, net |-> NetOk])
  /\ UNCHANGED <<secret, isLoggedIn, error, addresses, messages, pendingOutbound,
                 seenInscriptionIds, envVars, logins, sends, imports, histVars,
                 chain, pureVars>>

(* Line 871: the seen-set test, made for every inscription when the map    *)
(* callbacks start, before any of them reaches line 881.                   *)
NotSeen(inscriptions) ==
  SelectSeq(inscriptions, LAMBDA ins : ins.id \notin seenInscriptionIds)

(* A fetch step that marks every transaction the indexer listed as seen,   *)
(* whether or not its raw hex could be read.                               *)
CheckFetchMarkingListed(i) ==
  /\ i \in 1..Len(scans)
  /\ scans[i].pc = "fetch"
  /\ \E net \in NetOutcomes(scans[i].addresses) :
     LET p == scans[i]
         got == fetchSimulatedInscriptions(p.addresses, LedgerTxs, InboxOf(p.secret), net, now)
     IN /\ inbox' = [inbox EXCEPT ![p.secret] = got.queue]
        /\ IF got.results = <<>>
             THEN /\ error' = NoError
                  /\ isLoading' = FALSE
                  /\ scans' = [scans EXCEPT ![i].pc = "done", ![i].ledgerAt = ledger,
                                            ![i].faulty = net # NetOk,
                                            ![i].net = net]
           ELSE /\ scans' = [scans EXCEPT ![i].pc = "decrypt",
                                          ![i].todo = NotSeen(got.results),
                                          ![i].ledgerAt = ledger,
                                          ![i].faulty = net # NetOk,
                                          ![i].net = net,
                                          ![i].fetched = got.results,
                                          ![i].passed =
                                            {got.results[k].id : k \in
                                               {j \in 1..Len(got.results) :
                                                  got.results[j].id \notin seenInscriptionIds}}]
                /\ UNCHANGED <<error, isLoading>>
  /\ seenInscriptionIds' = seenInscriptionIds \cup ledger
  /\ UNCHANGED <<secret, isLoggedIn, addresses, messages, pendingOutbound,
                 ledger, now, uuid, logins, sends, imports,
                 histVars, chain, pureVars>>

(* Lines 861-873: the fetch resolves; with nothing fetched the call clears *)
(* the error and returns, otherwise every callback makes its seen-set test *)
(* and awaits its decryption.                                              *)
CheckFetch(i) ==
  /\ i \in 1..Len(scans)
  /\ scans[i].pc = "fetch"
  /\ \E net \in NetOutcomes(scans[i].addresses) :
     LET p == scans[i]
         got == fetchSimulatedInscriptions(p.addresses, LedgerTxs, InboxOf(p.secret), net, now)
     IN /\ inbox' = [inbox EXCEPT ![p.secret] = got.queue]
        /\ IF got.results = <<>>
             THEN /\ error' = NoError
                  /\ isLoading' = FALSE
                  /\ scans' = [scans EXCEPT ![i].pc = "done", ![i].ledgerAt = ledger,
                                            ![i].faulty = net # NetOk,
                                            ![i].net = net]
           ELSE /\ scans' = [scans EXCEPT ![i].pc = "decrypt",
                                          ![i].todo = NotSeen(got.results),
                                          ![i].ledgerAt = ledger,
                                          ![i].faulty = net # NetOk,
                                          ![i].net = net,
                                          ![i].fetched = got.results,
                                          ![i].passed =
                                            {got.results[k].id : k \in
                                               {j \in 1..Len(got.results) :
                                                  got.results[j].id \notin seenInscriptionIds}}]
                /\ UNCHANGED <<error, isLoading>>
  /\ UNCHANGED <<secret, isLoggedIn, addresses, messages, pendingOutbound,
                 seenInscriptionIds, ledger, now, uuid, logins, sends, imports,
                 histVars, chain, pureVars>>

(* Lines 892-896: the catch block and the finally block.                   *)
CheckCatch(i) ==
  /\ error' = "We could not read inscriptions from the chain."
  /\ isLoading' = FALSE
  /\ scans' = [scans EXCEPT ![i].pc = "done", ![i].todo = <<>>, ![i].candidates = <<>>]
  /\ UNCHANGED <<messages, seenInscriptionIds>>

(* Lines 875-882: one callback's decryption resolves; a decrypted entry is *)
(* marked seen and kept, an undecryptable one yields null.                 *)
CheckDecrypt(i) ==
  /\ i \in 1..Len(scans)
  /\ scans[i].pc = "decrypt"
  /\ scans[i].todo # <<>>
  /\ LET p == scans[i]
         inscription == Head(p.todo)
         decrypted == decryptInscription(p.secret, inscription)
     IN IF decrypted = ThrewMessage THEN CheckCatch(i)
        ELSE IF decrypted = NullMessage
          THEN /\ scans' = [scans EXCEPT ![i].todo = Tail(p.todo)]
               /\ UNCHANGED <<seenInscriptionIds, messages, error, isLoading>>
        ELSE /\ seenInscriptionIds' = seenInscriptionIds \cup {inscription.id}
             /\ scans' = [scans EXCEPT ![i].todo = Tail(p.todo),
                                       ![i].candidates = Append(p.candidates, decrypted),
                                       ![i].added = p.added \cup {inscription.id}]
             /\ UNCHANGED <<messages, error, isLoading>>
  /\ UNCHANGED <<secret, isLoggedIn, addresses, pendingOutbound, envVars, logins,
                 sends, imports, histVars, chain, pureVars>>

(* Lines 885-891 and the finally block: Promise.all has resolved.          *)
CheckCommit(i) ==
  /\ i \in 1..Len(scans)
  /\ scans[i].pc = "decrypt"
  /\ scans[i].todo = <<>>
  /\ messages' = IF scans[i].candidates # <<>>
                   THEN sortMessages(messages \o scans[i].candidates)
                 ELSE messages
  /\ error' = NoError
  /\ isLoading' = FALSE
  /\ scans' = [scans EXCEPT ![i].pc = "done", ![i].candidates = <<>>]
  /\ UNCHANGED <<secret, isLoggedIn, addresses, pendingOutbound, seenInscriptionIds,
                 envVars, logins, sends, imports, histVars, chain, pureVars>>


(***************************************************************************)
(* sendMessage (lines 730-795).                                            *)
(***************************************************************************)
(* Lines 732-746.  Without a secret or without addresses the call throws,  *)
(* and a message that is empty after trimming makes it return: the state   *)
(* stays as it is.                                                         *)
SendCall(rawMessage) ==
  /\ secret # Null
  /\ IF Trim(rawMessage) = <<>> \/ addresses = <<>>
       THEN UNCHANGED <<isLoading, sends>>
     ELSE /\ isLoading' = TRUE
          /\ sends' = Append(sends,
               [pc |-> "encrypt", secret |-> secret, addresses |-> addresses,
                message |-> Trim(rawMessage), epoch |-> epoch,
                \* history: another call was awaiting its encryption
                overlap |-> \E k \in 1..Len(sends) : sends[k].pc = "encrypt"])
  /\ UNCHANGED <<secret, isLoggedIn, error, addresses, messages, pendingOutbound,
                 seenInscriptionIds, envVars, logins, scans, imports, histVars,
                 chain, pureVars>>

(* Counts that ignore the direction, or the timeline altogether.           *)
outboundCountAll(prev) == Len(prev)
outboundCountNone(prev) == 0

(* Lines 757-759: the outbound messages of the timeline the updater is     *)
(* given.                                                                  *)
outboundCount(prev) ==
  Len(SelectSeq(prev, LAMBDA item : item.direction = "outbound"))

(* Lines 760-761: addresses[outboundCount % addresses.length] ?? addresses[0]. *)
targetAddressOf(addrs, count) == addrs[(count % Len(addrs)) + 1]

(* The instruction takes the address the variable was declared with.      *)
instructionAddressInitial(addrs, targetAddress) == addrs[1]

(* Lines 776-785: the updater of setPendingOutbound reads the variable     *)
(* targetAddress when it runs, after the updater of setMessages (the hook  *)
(* declared before it) has assigned it.                                    *)
instructionAddress(addrs, targetAddress) == targetAddress

(* Lines 749-791: the encryption has resolved.  cryptoOk = FALSE stands    *)
(* for an encryptMessage that throws (no Web Crypto).  The updater of      *)
(* setMessages counts the outbound messages of the timeline it is given    *)
(* and appends the new one; the updater of setPendingOutbound runs after   *)
(* it and reads the targetAddress it assigned.                             *)
SendCommit(i, iv, cryptoOk) ==
  /\ i \in 1..Len(sends)
  /\ sends[i].pc = "encrypt"
  /\ LET p == sends[i]
         encrypted == IF cryptoOk THEN encryptMessage(p.secret, p.message, iv) ELSE Threw
         id == <<"uuid", uuid + 1>>
         timestamp == now
         targetAddress == targetAddressOf(p.addresses, outboundCount(messages))
     IN IF encrypted = Threw
          THEN /\ error' = "We could not encrypt the message. Please try again."
               /\ UNCHANGED <<messages, pendingOutbound, uuid, sendLog>>
        ELSE /\ messages' = sortMessages(Append(messages,
                  [id |-> id, direction |-> "outbound", content |-> p.message,
                   encrypted |-> encrypted, address |-> targetAddress,
                   timestamp |-> timestamp]))
             /\ pendingOutbound' = Append(pendingOutbound,
                  [id |-> id,
                   address |-> instructionAddress(p.addresses, targetAddress),
                   payload |-> encrypted,
                   createdAt |-> timestamp, message |-> p.message])
             /\ error' = NoError
             /\ uuid' = uuid + 1
             /\ sendLog' = Append(sendLog,
                  [id |-> id, index |-> outboundCount(messages),
                   address |-> targetAddress, epoch |-> p.epoch,
                   overlapped |-> p.overlap \/ Len(sends) > i])
  /\ isLoading' = FALSE
  /\ sends' = [sends EXCEPT ![i] = [pc |-> "done"]]
  /\ UNCHANGED <<secret, isLoggedIn, addresses, seenInscriptionIds, ledger, inbox,
                 now, logins, scans, imports, limits, epoch, enqueued, chain, pureVars>>

(***************************************************************************)
(* importInbound (lines 797-847).                                          *)
(***************************************************************************)
ImportCall(payload) ==
  /\ secret # Null
  /\ IF Trim(payload) = <<>>
       THEN /\ error' = "Inbound payload cannot be empty."
            /\ imports' = Append(imports, [pc |-> "done"])
     ELSE /\ imports' = Append(imports,
               [pc |-> "decrypt", secret |-> secret, addresses |-> addresses,
                trimmedPayload |-> Trim(payload)])
          /\ UNCHANGED error
  /\ UNCHANGED <<secret, isLoggedIn, isLoading, addresses, messages, pendingOutbound,
                 seenInscriptionIds, envVars, logins, sends, scans, histVars,
                 chain, pureVars>>

UnknownAddress == <<"unknown-address">>

(* Lines 811-844, called without an address.                               *)
ImportCommit(i) ==
  /\ i \in 1..Len(imports)
  /\ imports[i].pc = "decrypt"
  /\ LET p == imports[i]
         decrypted == decryptMessage(p.secret, p.trimmedPayload)
         resolvedAddress == IF p.addresses # <<>> THEN p.addresses[1] ELSE UnknownAddress
     IN IF decrypted = Threw
          THEN /\ error' = "We could not import that inscription payload."
               /\ UNCHANGED <<messages, uuid>>
        ELSE IF decrypted = Null \/ decrypted = <<>>
          THEN /\ error' = "We could not decrypt the supplied payload."
               /\ UNCHANGED <<messages, uuid>>
        ELSE /\ messages' = sortMessages(Append(messages,
                  [id |-> <<"uuid", uuid + 1>>, direction |-> "inbound",
                   content |-> decrypted, encrypted |-> p.trimmedPayload,
                   address |-> resolvedAddress, timestamp |-> now]))
             /\ error' = NoError
             /\ uuid' = uuid + 1
  /\ imports' = [imports EXCEPT ![i] = [pc |-> "done"]]
  /\ UNCHANGED <<secret, isLoggedIn, isLoading, addresses, pendingOutbound,
                 seenInscriptionIds, ledger, inbox, now, logins, sends, scans,
                 histVars, chain, pureVars>>

(* An acknowledgement that also takes the message out of the timeline.     *)
acknowledgeOutboundAndForget(id) ==
  /\ \E k \in 1..Len(pendingOutbound) : pendingOutbound[k].id = id
  /\ pendingOutbound' = SelectSeq(pendingOutbound, LAMBDA item : item.id # id)
  /\ messages' = SelectSeq(messages, LAMBDA item : item.id # id)
  /\ UNCHANGED <<secret, isLoggedIn, isLoading, error, addresses,
                 seenInscriptionIds, envVars, callVars, histVars, chain, pureVars>>

(* acknowledgeOutbound (lines 602-604).                                    *)
acknowledgeOutbound(id) ==
  /\ \E k \in 1..Len(pendingOutbound) : pendingOutbound[k].id = id
  /\ pendingOutbound' = SelectSeq(pendingOutbound, LAMBDA item : item.id # id)
  /\ UNCHANGED <<secret, isLoggedIn, isLoading, error, addresses, messages,
                 seenInscriptionIds, envVars, callVars, histVars, chain, pureVars>>

(***************************************************************************)
(* The session model.                                                      *)
(***************************************************************************)
ImportPayloads == {PayloadHi1, PayloadHi2, TextBlank}
EnqueuePayloads == {PayloadYo1}
(* The calls that have not returned yet.                                   *)
Returned == {"done", "rejected", "failed"}
InFlight ==
  Cardinality({k \in 1..Len(logins) : logins[k].pc \notin Returned})
  + Cardinality({k \in 1..Len(scans) : scans[k].pc \notin Returned})
  + Cardinality({k \in 1..Len(sends) : sends[k].pc \notin Returned})
  + Cardinality({k \in 1..Len(imports) : imports[k].pc \notin Returned})
Free == InFlight < limits.inflight

PendingIds == {pendingOutbound[k].id : k \in 1..Len(pendingOutbound)}

(* The calls made so far, of any handler.                                  *)
CallsMade == Len(logins) + Len(sends) + Len(scans) + Len(imports) + enqueued
MayCall == CallsMade < limits.calls

MainLimits ==
  [calls |-> MaxCalls, ticks |-> MaxTicks, inflight |-> MaxInFlight,
   faults |-> MaxFaults]

Init == SessionInit(MainLimits, FirstTxs(MaxTxs))

TickStep == now < 1000 * (1 + limits.ticks) /\ Tick
EnqueueStep ==
  /\ MayCall
  /\ \E payload \in EnqueuePayloads :
       enqueueSimulatedInbound(Secret1, Addresses1[1], payload)

LoginNext ==
  \/ MayCall /\ Free /\ \E raw \in RawPhrases : LoginCall(raw)
  \/ \E i \in 1..Len(logins), derived \in BOOLEAN : LoginFetch(i, derived)
  \/ \E i \in 1..Len(logins) : LoginCommit(i)

CheckNext ==
  \/ MayCall /\ Free /\ CheckCall
  \/ \E i \in 1..Len(scans) : CheckFetch(i)
  \/ \E i \in 1..Len(scans) : CheckDecrypt(i)
  \/ \E i \in 1..Len(scans) : CheckCommit(i)

SendNext ==
  \/ MayCall /\ Free /\ \E raw \in RawMessages : SendCall(raw)
  \/ \E i \in 1..Len(sends), iv \in Nonces, cryptoOk \in BOOLEAN :
       SendCommit(i, iv, cryptoOk)
  \/ \E id \in PendingIds : acknowledgeOutbound(id)

ImportNext ==
  \/ /\ MayCall /\ Free /\ secret # Null
     /\ \E payload \in ImportPayloads : ImportCall(payload)
  \/ \E i \in 1..Len(imports) : ImportCommit(i)

Next ==
  \/ Publish
  \/ TickStep
  \/ EnqueueStep
  \/ LoginNext
  \/ CheckNext
  \/ SendNext
  \/ ImportNext

Spec == Init /\ [][Next]_vars

(***************************************************************************)
(* The scan model: a session that has logged in and only scans.            *)
(***************************************************************************)
(* The state login leaves (lines 706-715, 726) when it is called with sec  *)
(* at a time the indexer shows the first k transactions of txs and every   *)
(* request succeeds and no decryption throws.                              *)
LoggedInVarsInit(lim, txs, k, sec) ==
  LET derivedAddresses == deriveTaprootAddresses(sec, AddressCount)
      published == SubSeq(txs, 1, k)
      inscriptions ==
        fetchSimulatedInscriptions(derivedAddresses, published, <<>>, NetOk, 1000).results
      decryptedMessages == DecryptAll(sec, inscriptions)
  IN /\ \A j \in 1..Len(inscriptions) :
          decryptInscription(sec, inscriptions[j]) # ThrewMessage
     /\ secret = sec
     /\ isLoggedIn = TRUE
     /\ isLoading = FALSE
     /\ error = NoError
     /\ addresses = derivedAddresses
     /\ messages = sortMessages(decryptedMessages)
     /\ pendingOutbound = <<>>
     /\ seenInscriptionIds = {decryptedMessages[j].id : j \in 1..Len(decryptedMessages)}
     /\ chain = txs
     /\ ledger = {txs[j].txid : j \in 1..k}
     /\ inbox = [s \in {Secret1, Secret2} |-> <<>>]
     /\ now = 1000
     /\ uuid = 0
     /\ logins = <<[pc |-> "done", rawSecret |-> sec, faulty |-> FALSE]>>
     /\ sends = <<>>
     /\ scans = <<>>
     /\ imports = <<>>
     /\ limits = lim
     /\ epoch = 1
     /\ enqueued = 0
     /\ sendLog = <<>>

LoggedInInit(lim, txs, k, sec) ==
  /\ LoggedInVarsInit(lim, txs, k, sec)
  /\ cry = Unused
  /\ bld = Unused

ScanLimits ==
  [calls |-> 1 + ScanMaxScans, ticks |-> 0, inflight |-> MaxInFlight,
   faults |-> MaxFaults]

(* The session has logged in at some moment of the chain's history.        *)
(* The chain of the scan model: the transaction that pays two mailboxes    *)
(* first, then the one encrypted under the other secret, then the others.  *)
ScanTxs(n) ==
  SubSeq(<<TxUniverse[2], TxUniverse[3], TxUniverse[1], TxUniverse[4],
           TxUniverse[5], TxUniverse[6]>>, 1, Min(n, Len(TxUniverse)))

InitScan ==
  \E k \in 0..Min(ScanMaxTxs, Len(TxUniverse)) :
    LoggedInInit(ScanLimits, ScanTxs(ScanMaxTxs), k, Secret1)

NextScan ==
  \/ Publish
  \/ CheckNext

SpecScan == InitScan /\ [][NextScan]_vars

(***************************************************************************)
(* The send model: a session that has logged in and only sends.            *)
(***************************************************************************)
SendLimits ==
  [calls |-> 1 + SendMaxSends, ticks |-> 0, inflight |-> MaxInFlight,
   faults |-> 0]

InitSend ==
  LoggedInInit(SendLimits, FirstTxs(SendMaxTxs), Min(SendMaxTxs, Len(TxUniverse)), Secret1)

NextSend == SendNext

SpecSend == InitSend /\ [][NextSend]_vars

(***************************************************************************)
(* Properties of scanning.                                                 *)
(***************************************************************************)
Occurrences(id) == Cardinality({k \in 1..Len(messages) : messages[k].id = id})

FetchedIds(p) == {scans[p].fetched[k].id : k \in 1..Len(scans[p].fetched)}

Undecryptable(sec, payload) == decryptMessageNoCatch(sec, payload) = Threw

Decryptable(sec, payload) ==
  ~Undecryptable(sec, payload) /\ decryptMessageNoCatch(sec, payload) # <<>>

(* Scan q was called after scan p had returned; both belong to the current *)
(* session, have returned, and read the same ledger and the same listing.  *)
ScannedTwice(p, q) ==
  /\ p \in scans[q].after
  /\ scans[p].pc = "done" /\ scans[q].pc = "done"
  /\ scans[p].epoch = epoch /\ scans[q].epoch = epoch
  /\ scans[p].ledgerAt = scans[q].ledgerAt
  /\ scans[p].fetched = scans[q].fetched

(* C1: when checkForMessages runs twice in sequence over an unchanged      *)
(* ledger, every decryptable transaction the first scan found new is in    *)
(* the timeline exactly once and the second scan adds no message.          *)
C1_ScanTwiceAddsOnce ==
  \A p, q \in 1..Len(scans) :
    ScannedTwice(p, q) =>
      /\ scans[q].added = {}
      /\ \A k \in 1..Len(scans[p].fetched) :
           ( /\ scans[p].fetched[k].id \in scans[p].passed
             /\ Decryptable(scans[p].secret, scans[p].fetched[k].payload) )
             => Occurrences(scans[p].fetched[k].id) = 1

(* The part of C1 that holds: the second scan adds no message.            *)
SecondScanAddsNothing ==
  \A p, q \in 1..Len(scans) : ScannedTwice(p, q) => scans[q].added = {}

(* Scans p and q of one session were both awaiting a result at some time,  *)
(* and both have read the ledger, which was the same for both.             *)
Overlapping(p, q) ==
  /\ p < q
  /\ scans[p].epoch = scans[q].epoch
  /\ p \notin scans[q].after
  /\ scans[p].pc # "fetch" /\ scans[q].pc # "fetch"
  /\ scans[p].ledgerAt = scans[q].ledgerAt

(* C2: two overlapping checkForMessages calls over the same ledger never   *)
(* both pass the seen-set test for one id, and once both have returned     *)
(* each id they fetched is in the timeline at most once.                   *)
C2_OverlapNeverBothPass ==
  \A p, q \in 1..Len(scans) :
    Overlapping(p, q) =>
      /\ scans[p].passed \cap scans[q].passed = {}
      /\ (scans[p].pc = "done" /\ scans[q].pc = "done" /\ scans[p].epoch = epoch)
           => \A id \in FetchedIds(p) \cup FetchedIds(q) : Occurrences(id) <= 1

(* The payloads decryptMessage cannot read under Secret1: encrypted under  *)
(* another secret, corrupt, truncated, not base64.                         *)
BadPayloads == {PayloadHi2, PayloadCorrupt, PayloadTruncated, PayloadNotBase64}

(* C7: decryptMessage returns null, and never raises, for a payload made   *)
(* under another secret, a corrupt or truncated payload and text that is   *)
(* not base64; the step of a scan that fails to decrypt an entry leaves    *)
(* the timeline, the error and the seen-set as they are and keeps no       *)
(* candidate.                                                              *)
C7_FailedDecryptIsDropped ==
  [][ /\ \A b \in BadPayloads : decryptMessage(Secret1, b) = Null
      /\ \A i \in 1..Len(scans) :
           ( /\ scans[i].pc = "decrypt"
             /\ scans[i].todo # <<>>
             /\ Undecryptable(scans[i].secret, Head(scans[i].todo).payload)
             /\ CheckDecrypt(i) )
           => /\ decryptMessage(scans[i].secret, Head(scans[i].todo).payload) = Null
              /\ UNCHANGED <<messages, error, seenInscriptionIds>>
              /\ scans'[i].candidates = scans[i].candidates
              /\ scans'[i].pc = "decrypt" ]_vars

(* A scan has returned after dropping an entry it could not decrypt: the   *)
(* entry passed the seen-set test, is not marked seen, is not in the       *)
(* timeline, and no error is set.                                          *)
C7_DroppedEntry ==
  \E i \in 1..Len(scans) :
    /\ scans[i].pc = "done"
    /\ error = NoError
    /\ \E k \in 1..Len(scans[i].fetched) :
         /\ Undecryptable(scans[i].secret, scans[i].fetched[k].payload)
         /\ scans[i].fetched[k].id \in scans[i].passed
         /\ scans[i].fetched[k].id \notin seenInscriptionIds
         /\ Occurrences(scans[i].fetched[k].id) = 0

(***************************************************************************)
(* Properties of the timeline.                                             *)
(***************************************************************************)
(* C3: in every reachable state the timeline is ordered by ascending       *)
(* timestamp.                                                              *)
C3_TimelineSorted ==
  \A i \in 1..(Len(messages) - 1) :
    messages[i].timestamp <= messages[i + 1].timestamp

(* No scan has added anything, so the ledger message came with the login,  *)
(* and an outbound message, sent after the login, stands before it.        *)
C3_ArrivedOutOfOrder ==
  /\ \A k \in 1..Len(scans) : scans[k].added = {}
  /\ \E i \in 1..(Len(messages) - 1) :
       /\ messages[i].direction = "outbound"
       /\ messages[i + 1].id[1] = "tx"
       /\ messages[i].timestamp < messages[i + 1].timestamp

C5_OverlappingSendsConsecutive ==
  \A i, j \in 1..Len(sendLog) :
    (i < j /\ sendLog[i].overlapped /\ sendLog[j].overlapped)
      => /\ sendLog[i].index # sendLog[j].index
         /\ (j = i + 1 => sendLog[j].index = sendLog[i].index + 1)

(* Two calls that overlapped have both recorded their message.             *)
C5_TwoOverlappedSends ==
  /\ Len(sendLog) >= 2
  /\ sendLog[1].overlapped /\ sendLog[2].overlapped
  /\ sendLog[1].address # sendLog[2].address

(***************************************************************************)
(* encryptMessage and decryptMessage on their own: one message is          *)
(* encrypted under a secret with the nonce getRandomValues drew, the       *)
(* payload may be damaged on its way, and a reader decrypts it.            *)
(***************************************************************************)
SecretShort == <<112, 119>>
CrySecrets == {Secret1, Secret2, SecretShort}

(* "\uFEFFhi" (a byte order mark in front), "h\uD83D" (an unpaired high  *)
(* surrogate), U+1F600 as a surrogate pair, and e-acute.                   *)
TextBomHi == <<65279, 104, 105>>
TextLoneSurrogate == <<104, 55357>>
TextEmoji == <<55357, 56832>>
TextAccent == <<233>>
CryMessages ==
  {TextHi, TextYo, TextBlank, TextBomHi, TextLoneSurrogate, TextEmoji, TextAccent}

NonceZero == <<>> \o [i \in 1..IV_LENGTH |-> 0]
CryNonces == {Nonce1, Nonce2, NonceZero}

(* What can happen to a payload between the two calls.                     *)
Damage(kind, payload) ==
  CASE kind = "corrupt" ->
         [payload EXCEPT ![17] = IF payload[17] = 65 THEN 66 ELSE 65]
    [] kind = "truncated" -> SubSeq(payload, 1, 16)
    [] kind = "not-base64" -> <<35>> \o SubSeq(payload, 2, Len(payload))

DamageKinds == {"corrupt", "truncated", "not-base64"}

CryInit == cry = [pc |-> "idle"]

CryEncrypt(sec, message, iv) ==
  /\ cry.pc = "idle"
  /\ LET payload == encryptMessage(sec, message, iv) IN
       cry' = IF payload = Threw
              THEN [pc |-> "threw", secret |-> sec, message |-> message]
              ELSE [pc |-> "encrypted", secret |-> sec, message |-> message,
                    iv |-> iv, payload |-> payload, damage |-> "none"]
  /\ UNCHANGED <<sessionVars, chain, bld>>

CryDamage(kind) ==
  /\ cry.pc = "encrypted"
  /\ cry.damage = "none"
  /\ cry' = [cry EXCEPT !.payload = Damage(kind, cry.payload), !.damage = kind]
  /\ UNCHANGED <<sessionVars, chain, bld>>

CryDecrypt(reader) ==
  /\ cry.pc = "encrypted"
  /\ cry' = [pc |-> "decrypted", secret |-> cry.secret, message |-> cry.message,
             iv |-> cry.iv, payload |-> cry.payload, damage |-> cry.damage,
             reader |-> reader,
             raw |-> decryptMessageNoCatch(reader, cry.payload),
             result |-> decryptMessage(reader, cry.payload)]
  /\ UNCHANGED <<sessionVars, chain, bld>>

NoLimits ==
  [calls |-> 0, ticks |-> 0, inflight |-> 0, faults |-> 0]

InitCrypto ==
  /\ SessionVarsInit(NoLimits, <<>>)
  /\ CryInit
  /\ bld = Unused

NextCrypto ==
  \/ \E sec \in CrySecrets, message \in CryMessages, iv \in CryNonces :
       CryEncrypt(sec, message, iv)
  \/ \E kind \in DamageKinds : CryDamage(kind)
  \/ \E reader \in CrySecrets : CryDecrypt(reader)

SpecCrypto == InitCrypto /\ [][NextCrypto]_vars

(* C6: for every secret and every message that is not blank, decrypting    *)
(* what encryptMessage produced under the same secret returns the message  *)
(* unchanged, whatever the nonce; the payload is nonce, ciphertext and tag *)
(* and is split at byte 12.                                                *)
C6_RoundTrip ==
  (cry.pc = "decrypted" /\ cry.damage = "none" /\ cry.reader = cry.secret)
    => /\ cry.result = cry.message
       /\ LET bytes == base64ToUint8Array(cry.payload) IN
            /\ SliceTo(bytes, IV_LENGTH) = cry.iv
            /\ Len(bytes) = IV_LENGTH + Len(TextEncode(cry.message)) + TAG_LENGTH

(* The round trip does hold for messages that TextEncoder and TextDecoder  *)
(* carry unchanged: no byte order mark in front, no unpaired surrogate.    *)
WellFormed(message) ==
  /\ message[1] # 65279
  /\ \A i \in 1..Len(message) :
       /\ IsHighSurrogate(message[i])
            => (i < Len(message) /\ IsLowSurrogate(message[i + 1]))
       /\ IsLowSurrogate(message[i])
            => (i > 1 /\ IsHighSurrogate(message[i - 1]))

RoundTripWellFormed ==
  (cry.pc = "decrypted" /\ cry.damage = "none" /\ cry.reader = cry.secret
     /\ WellFormed(cry.message))
    => cry.result = cry.message

(* A damaged payload, or one read under another secret, decrypts to null.  *)
DamagedOrForeignIsNull ==
  (cry.pc = "decrypted" /\ (cry.damage # "none" \/ cry.reader # cry.secret))
    => (cry.result = Null /\ cry.raw = Threw)

(***************************************************************************)
(* buildOpReturnTransaction on its own.  The fee rate is a number of       *)
(* quarter satoshis per virtual byte (feeRate4 = 4 * feeRate), so that the *)
(* rates 0.25 and 3.25 are integers here and Math.floor has work to do;    *)
(* amounts compared with a product of the rate are multiplied by four.     *)
(***************************************************************************)
OP_RETURN_LIMIT == 80
dustAmount == 546
inputCost == 68
baseCost == 110
FEE_FLOOR == 500

ErrEmptyPayload == "Cannot broadcast an empty payload."
ErrPayloadSize == "Payload exceeds OP_RETURN limit (80 bytes)."
ErrMissingScript == "UTXO missing scriptPubKey; cannot build PSBT."
ErrInsufficientFunds == "Insufficient funds for transaction"
ErrInsufficientBalance == "Insufficient balance to cover fee."

BuildThrew(message) == [status |-> "threw", error |-> message]

(* Four times targetAmount.                                                *)
targetAmount4(feeRate4) == 4 * dustAmount + feeRate4 * (baseCost + inputCost)

(* A loop that takes every UTXO that has a script, whatever the target.    *)
RECURSIVE addInputsAll(_, _, _, _)
addInputsAll(utxos, i, inputs, target4) ==
  LET totalInput == SumSeq(<<>> \o [k \in 1..Len(inputs) |-> inputs[k].value]) IN
    IF i > Len(utxos)
    THEN [threw |-> FALSE, inputs |-> inputs, totalInput |-> totalInput]
    ELSE IF ~utxos[i].scriptPubKey
    THEN [threw |-> TRUE, inputs |-> inputs, totalInput |-> totalInput]
    ELSE addInputsAll(utxos, i + 1, Append(inputs, utxos[i]), target4)

(* A loop that passes over a UTXO without a script instead of throwing.    *)
RECURSIVE addInputsSkipping(_, _, _, _)
addInputsSkipping(utxos, i, inputs, target4) ==
  LET totalInput == SumSeq(<<>> \o [k \in 1..Len(inputs) |-> inputs[k].value]) IN
    IF i > Len(utxos) \/ 4 * totalInput >= target4
    THEN [threw |-> FALSE, inputs |-> inputs, totalInput |-> totalInput]
    ELSE IF ~utxos[i].scriptPubKey
    THEN addInputsSkipping(utxos, i + 1, inputs, target4)
    ELSE addInputsSkipping(utxos, i + 1, Append(inputs, utxos[i]), target4)

(* The loop over the UTXOs from position i on: stop once the inputs cover  *)
(* the target, throw at a UTXO without a script, add the UTXO otherwise.   *)
RECURSIVE addInputs(_, _, _, _)
addInputs(utxos, i, inputs, target4) ==
  LET totalInput == SumSeq(<<>> \o [k \in 1..Len(inputs) |-> inputs[k].value]) IN
    IF i > Len(utxos) \/ 4 * totalInput >= target4
    THEN [threw |-> FALSE, inputs |-> inputs, totalInput |-> totalInput]
    ELSE IF ~utxos[i].scriptPubKey
    THEN [threw |-> TRUE, inputs |-> inputs, totalInput |-> totalInput]
    ELSE addInputs(utxos, i + 1, Append(inputs, utxos[i]), target4)

(* A fee computed for one input whatever the number of inputs, as the      *)
(* initial estimate does.                                                  *)
estimatedFeeOneInput(feeRate4, inputCount) ==
  Max((feeRate4 * (baseCost + inputCost)) \div 4, FEE_FLOOR)

(* A fee that charges less for every input added.                         *)
estimatedFeeShrinking(feeRate4, inputCount) ==
  Max((feeRate4 * (baseCost + inputCost * (3 - inputCount))) \div 4, FEE_FLOOR)

(* Math.max(Math.floor(feeRate * estimatedVBytes), 500)                    *)
estimatedFee(feeRate4, inputCount) ==
  LET estimatedVBytes == baseCost + inputCount * inputCost IN
    Max((feeRate4 * estimatedVBytes) \div 4, FEE_FLOOR)

(* A change output added whenever the change is not negative.              *)
changeOutputAlways(senderAddress, change) ==
  <<[address |-> senderAddress, value |-> change]>>

(* Lines 94-99: the third output, present only if the change reaches the   *)
(* dust amount.                                                            *)
changeOutput(senderAddress, change) ==
  IF change >= dustAmount THEN <<[address |-> senderAddress, value |-> change]>>
  ELSE <<>>

(* A funding test that lets every total pass.                              *)
insufficientFundsNever(totalInput, target4) == FALSE

(* Line 61: totalInput < targetAmount.                                     *)
insufficientFunds(totalInput, target4) == 4 * totalInput < target4

(* An output is a record of an address and a value, or of the script       *)
(* OP_RETURN <data> and a value.                                           *)
buildOpReturnTransaction(senderAddress, recipientAddress, payload, utxos, feeRate4) ==
  IF Trim(payload) = <<>> THEN BuildThrew(ErrEmptyPayload)
  ELSE LET payloadBuffer == TextEncode(payload) IN
    IF Len(payloadBuffer) > OP_RETURN_LIMIT THEN BuildThrew(ErrPayloadSize)
    ELSE LET target4 == targetAmount4(feeRate4)
             sel == addInputs(utxos, 1, <<>>, target4)
         IN
      IF sel.threw THEN BuildThrew(ErrMissingScript)
      ELSE IF insufficientFunds(sel.totalInput, target4)
        THEN BuildThrew(ErrInsufficientFunds)
      ELSE LET fee == estimatedFee(feeRate4, Len(sel.inputs))
               change == sel.totalInput - dustAmount - fee
           IN
        IF change < 0 THEN BuildThrew(ErrInsufficientBalance)
        ELSE [status |-> "ok",
              inputs |-> sel.inputs,
              outputs |-> <<[address |-> recipientAddress, value |-> dustAmount],
                            [opReturn |-> payloadBuffer, value |-> 0]>>
                          \o changeOutput(senderAddress, change)]

(* Bounds and inputs of the builder's model.                               *)
MaxUtxos == 2

Repeat(c, n) == <<>> \o [i \in 1..n |-> c]
PayloadAtLimit == Repeat(65, OP_RETURN_LIMIT)
PayloadOver == Repeat(65, OP_RETURN_LIMIT + 1)
PayloadBlankOver == Repeat(32, OP_RETURN_LIMIT + 1)
(* Forty e-acute are forty code units and eighty bytes.                    *)
PayloadAccentsAtLimit == Repeat(233, 40)
PayloadAccentsOver == Repeat(233, 40) \o <<65>>
BuildPayloads ==
  {<<>>, PayloadHi1, PayloadAtLimit, PayloadOver, PayloadBlankOver,
   PayloadAccentsAtLimit, PayloadAccentsOver}

(* 0, 0.25, 3.25 and the default 10 sat/vB.                                *)
FeeRates4 == {0, 1, 13, 40}

UtxoValues == {546, 1000, 2326, 2871, 2872}
Utxos == [value : UtxoValues, scriptPubKey : BOOLEAN]
SenderAddress == "sender"
MailboxAddress == "mailbox"
UtxoLists == UNION {[1..n -> Utxos] : n \in 0..MaxUtxos}

BldInit == bld = [pc |-> "idle"]

BuildCall(payload, utxos, feeRate4) ==
  /\ bld.pc = "idle"
  /\ bld' = [pc |-> "returned", payload |-> payload, utxos |-> utxos,
             feeRate4 |-> feeRate4,
             result |-> buildOpReturnTransaction(SenderAddress, MailboxAddress,
                                                 payload, utxos, feeRate4)]
  /\ UNCHANGED <<sessionVars, chain, cry>>

InitBuild ==
  /\ SessionVarsInit(NoLimits, <<>>)
  /\ cry = Unused
  /\ BldInit

NextBuild ==
  /\ bld.pc = "idle"
  /\ \E payload \in BuildPayloads, utxos \in UtxoLists, feeRate4 \in FeeRates4 :
       BuildCall(payload, utxos, feeRate4)

SpecBuild == InitBuild /\ [][NextBuild]_vars

PayloadBytes == Len(TextEncode(bld.payload))
Built == bld.pc = "returned" /\ bld.result.status = "ok"
Rejected(message) ==
  bld.pc = "returned" /\ bld.result.status = "threw" /\ bld.result.error = message

(* C9: a payload of exactly 80 UTF-8 bytes passes the size check, and a    *)
(* payload of 81 bytes is rejected with the size error whatever UTXOs are  *)
(* supplied.                                                               *)
C9_SizeCheck ==
  bld.pc = "returned"
    => /\ (PayloadBytes = OP_RETURN_LIMIT => ~Rejected(ErrPayloadSize))
       /\ (PayloadBytes = OP_RETURN_LIMIT + 1 => Rejected(ErrPayloadSize))

(* The same for payloads that are not blank, which is what the code does:  *)
(* the blank test comes first.                                             *)
SizeCheckNonBlank ==
  (bld.pc = "returned" /\ Trim(bld.payload) # <<>>)
    => /\ (PayloadBytes <= OP_RETURN_LIMIT => ~Rejected(ErrPayloadSize))
       /\ (PayloadBytes > OP_RETURN_LIMIT => Rejected(ErrPayloadSize))

TotalIn == SumSeq(<<>> \o [k \in 1..Len(bld.result.inputs) |-> bld.result.inputs[k].value])
TotalOut == SumSeq(<<>> \o [k \in 1..Len(bld.result.outputs) |-> bld.result.outputs[k].value])
FeeUsed == Max((bld.feeRate4 * (110 + 68 * Len(bld.result.inputs))) \div 4, 500)
HasChangeOutput == Len(bld.result.outputs) = 3

(* C10 as amended: in every transaction returned, inputs minus outputs is  *)
(* at least max(floor(feeRate * (110 + 68 n)), 500); it equals that fee    *)
(* whenever a change output is present, and without one it exceeds the fee *)
(* by the change left to the miners, from 0 to 545 satoshis.               *)
C10_FeePaid ==
  Built
    => /\ TotalIn - TotalOut >= FeeUsed
       /\ TotalIn - TotalOut >= 500
       /\ HasChangeOutput => TotalIn - TotalOut = FeeUsed
       /\ ~HasChangeOutput => TotalIn - TotalOut - FeeUsed \in 0..545
       /\ HasChangeOutput => bld.result.outputs[3].value >= 546

(* C10 as stated: the difference equals the fee exactly when a change      *)
(* output is present.                                                      *)
C10_FeeExactIffChange ==
  Built => ((TotalIn - TotalOut = FeeUsed) <=> HasChangeOutput)

(* A transaction of two inputs with a change output, at a rate whose fee   *)
(* is above the floor and not a whole number before Math.floor.            *)
C10_TwoInputsWithChange ==
  /\ Built
  /\ Len(bld.result.inputs) = 2
  /\ HasChangeOutput
  /\ FeeUsed > 500
  /\ (bld.feeRate4 * (110 + 68 * 2)) % 4 # 0

Change == TotalIn - 546 - FeeUsed

(* C11: every transaction returned has its outputs in this order: 546      *)
(* satoshis to the mailbox address, a zero-value OP_RETURN output carrying *)
(* the payload's UTF-8 bytes, and a change output to the sender that is    *)
(* present exactly when total input - 546 - fee is at least 546.           *)
C11_OutputOrder ==
  Built
    => /\ Len(bld.result.outputs) \in {2, 3}
       /\ bld.result.outputs[1] = [address |-> MailboxAddress, value |-> 546]
       /\ bld.result.outputs[2] = [opReturn |-> TextEncode(bld.payload), value |-> 0]
       /\ HasChangeOutput <=> Change >= 546
       /\ HasChangeOutput
            => bld.result.outputs[3] = [address |-> SenderAddress, value |-> Change]

(* A transaction whose change, 545 satoshis, is one short of the dust      *)
(* amount and so has two outputs.                                          *)
C11_ChangeJustBelowDust ==
  /\ Built
  /\ Change = 545
  /\ Len(bld.result.outputs) = 2

(* The value of the first k UTXOs supplied, four times the funding target  *)
(* 546 + feeRate * 178, and the number of UTXOs the loop reaches when none *)
(* lacks a script: the shortest prefix that covers the target, or all.     *)
PrefixTotal(k) == SumSeq(<<>> \o [j \in 1..k |-> bld.utxos[j].value])
Target4 == 4 * 546 + bld.feeRate4 * 178
Covers(k) == 4 * PrefixTotal(k) >= Target4
Reach ==
  IF \E k \in 0..Len(bld.utxos) : Covers(k)
    THEN CHOOSE k \in 0..Len(bld.utxos) : Covers(k) /\ \A j \in 0..(k - 1) : ~Covers(j)
  ELSE Len(bld.utxos)
PayloadValid == Trim(bld.payload) # <<>> /\ PayloadBytes <= 80

(* C12: the inputs of a transaction returned are, in the supplied order,   *)
(* exactly the shortest prefix of the supplied UTXOs whose total value is  *)
(* at least 546 + feeRate * 178.                                           *)
C12_ShortestPrefix ==
  Built
    => /\ Covers(Reach)
       /\ bld.result.inputs = SubSeq(bld.utxos, 1, Reach)

(* The first UTXO covers the target, and the second, which has no script,  *)
(* is left alone.                                                          *)
C12_SecondUtxoNotNeeded ==
  /\ Built
  /\ Len(bld.utxos) = 2
  /\ Len(bld.result.inputs) = 1
  /\ ~bld.utxos[2].scriptPubKey

(* C13: the build fails with an insufficient-funds error, and returns no   *)
(* transaction, when the UTXOs supplied (none included) are worth less     *)
(* than the target, and when the change computed with the fee for the      *)
(* inputs taken is negative.  (The payload is valid and no UTXO the loop   *)
(* reaches lacks a script: those errors come first.)                       *)
C13_InsufficientFunds ==
  (bld.pc = "returned" /\ PayloadValid
     /\ \A j \in 1..Reach : bld.utxos[j].scriptPubKey)
    => /\ ~Covers(Len(bld.utxos)) => Rejected(ErrInsufficientFunds)
       /\ (Covers(Reach)
             /\ PrefixTotal(Reach) - 546
                  - Max((bld.feeRate4 * (110 + 68 * Reach)) \div 4, 500) < 0)
            => Rejected(ErrInsufficientBalance)

(* Two inputs cover the target, which assumes one input, but not the fee   *)
(* for two.                                                                *)
C13_FeeForTwoInputsNotCovered ==
  /\ Rejected(ErrInsufficientBalance)
  /\ Reach = 2
  /\ bld.feeRate4 = 40

(* C14: the build fails with the missing-script error, and returns no      *)
(* transaction, when a UTXO the loop reaches has no locking script.         *)
C14_MissingScript ==
  (bld.pc = "returned" /\ PayloadValid
     /\ \E j \in 1..Len(bld.utxos) :
          /\ ~bld.utxos[j].scriptPubKey
          /\ ~Covers(j - 1)
          /\ \A i \in 1..(j - 1) : bld.utxos[i].scriptPubKey)
    => Rejected(ErrMissingScript)

(* The UTXO without a script is the second one reached.                    *)
C14_SecondUtxoWithoutScript ==
  /\ Rejected(ErrMissingScript)
  /\ Len(bld.utxos) = 2
  /\ bld.utxos[1].scriptPubKey
  /\ ~bld.utxos[2].scriptPubKey

(***************************************************************************)
(* The fee as a function of the number of inputs: the fee rate, in         *)
(* quarters of a satoshi per virtual byte, is drawn at the start and the   *)
(* fee is computed again for each input added.                             *)
(***************************************************************************)
MaxFeeRate4 == 60
MaxInputs == 3

FeeInit ==
  \E feeRate4 \in 0..MaxFeeRate4 :
    bld = [pc |-> "fee", feeRate4 |-> feeRate4, inputCount |-> 0,
           fee |-> estimatedFee(feeRate4, 0)]

FeeForOneMoreInput ==
  /\ bld.pc = "fee"
  /\ bld.inputCount < MaxInputs
  /\ bld' = [bld EXCEPT !.inputCount = @ + 1,
                        !.fee = estimatedFee(bld.feeRate4, bld.inputCount + 1)]
  /\ UNCHANGED <<sessionVars, chain, cry>>

InitFee ==
  /\ SessionVarsInit(NoLimits, <<>>)
  /\ cry = Unused
  /\ FeeInit

NextFee == FeeForOneMoreInput

SpecFee == InitFee /\ [][NextFee]_vars

(* C15: for a fixed fee rate that is not negative, the fee never decreases *)
(* when the number of inputs grows.                                        *)
C15_FeeMonotone ==
  [][(bld.pc = "fee" /\ bld'.pc = "fee" /\ bld'.feeRate4 = bld.feeRate4
        /\ bld'.inputCount >= bld.inputCount)
       => bld'.fee >= bld.fee]_vars

(* A fractional rate, 3.25 sat/vB, whose fee left the 500-satoshi floor    *)
(* as inputs were added: 357 -> 500, 578, 799.                             *)
C15_FeeAboveFloorAfterTwoInputs ==
  /\ bld.pc = "fee"
  /\ bld.feeRate4 = 13
  /\ bld.inputCount = 2
  /\ bld.fee = 799

(***************************************************************************)
(* fetchUtxos and the part of inscribeWithWallet that spends what it       *)
(* returns.  The indexer's answer is a list of unspent outputs, each with  *)
(* its outpoint (id), the value as the JSON number received, the confirmed *)
(* flag, and the locking script: present in the answer, absent but found   *)
(* by the transaction lookup, or not found at all.                         *)
(***************************************************************************)
MaxWalletUtxos == 2

(* A JSON number: an integer n, a number with a fractional part whose      *)
(* product with 1e8 rounds to n, or a value that is not finite.            *)
IntegerValue(n) == [kind |-> "integer", n |-> n]
FractionValue(n) == [kind |-> "fraction", n |-> n]
NonFiniteValue == [kind |-> "nonfinite", n |-> 0]

normalizeSatoshis(value) ==
  IF value.kind = "nonfinite" THEN [threw |-> TRUE, value |-> 0]
  ELSE IF value.kind = "integer" THEN [threw |-> FALSE, value |-> value.n]
  ELSE LET sats == value.n IN
         IF sats <= 0 THEN [threw |-> TRUE, value |-> 0]
         ELSE [threw |-> FALSE, value |-> sats]

(* No filter: every output the indexer lists is kept.                      *)
confirmedAll(utxos) == utxos

(* utxos.filter((utxo) => utxo.status.confirmed)                           *)
confirmed(utxos) == SelectSeq(utxos, LAMBDA utxo : utxo.status.confirmed)

fetchUtxos(response) ==
  IF ~response.ok THEN [threw |-> TRUE, results |-> <<>>]
  ELSE
    LET kept == SelectSeq(confirmed(response.utxos),
                          LAMBDA utxo : ~normalizeSatoshis(utxo.value).threw)
    IN [threw |-> FALSE,
        results |-> <<>> \o
          [i \in 1..Len(kept) |->
             [id |-> kept[i].id,
              value |-> normalizeSatoshis(kept[i].value).value,
              scriptPubKey |-> kept[i].scriptpubkey # "unresolved"]]]

ErrNoUtxos == "No confirmed UTXOs available. Fund your wallet with testnet BTC."
ErrFetchUtxos == "Failed to fetch UTXOs"
ErrNoTxid == "Transaction broadcast returned no txid"
ErrWallet == "wallet error"

(* 0.00003 is 3000 satoshis once normalised; 0.000000001 rounds to 0.      *)
IndexerValues ==
  {IntegerValue(1500), IntegerValue(3000), FractionValue(3000),
   FractionValue(0), NonFiniteValue}
IndexerFields ==
  [value : IndexerValues, status : [confirmed : BOOLEAN],
   scriptpubkey : {"present", "resolved", "unresolved"}]
(* Each outpoint is listed once: the id of an entry is its position.       *)
IndexerList(n, f) == <<>> \o [i \in 1..n |-> [id |-> i] @@ f[i]]
WalletFeeRate4 == 4 * 12

(***************************************************************************)
(* inscribeWithWallet, whole.  The wallet extension is a collaborator: it  *)
(* is present or not, offers switchNetwork or not, offers signPsbt and     *)
(* pushPsbt or not, and each of its methods resolves with an answer or     *)
(* rejects.  Texts are sequences of code units.  bld holds the context's   *)
(* wallet state (inscribing, inscriptionResults, walletError,              *)
(* walletAddress, walletNetwork), the locals of the call in progress, the  *)
(* result the last call returned and the collaborator calls it made.       *)
(***************************************************************************)
MaxInscribes == 2

StartsWith(s, p) == Len(s) >= Len(p) /\ SubSeq(s, 1, Len(p)) = p
Includes(s, p) ==
  \E i \in 0..(Len(s) - Len(p)) : SubSeq(s, i + 1, i + Len(p)) = p

(* "testnet", "signet", "mainnet", "livenet", "TESTNET4", "dev"            *)
TextTestnet == <<116, 101, 115, 116, 110, 101, 116>>
TextSignet == <<115, 105, 103, 110, 101, 116>>
TextMainnet == <<109, 97, 105, 110, 110, 101, 116>>
TextLivenet == <<108, 105, 118, 101, 110, 101, 116>>
TextTestnet4Upper == <<84, 69, 83, 84, 78, 69, 84, 52>>
TextDev == <<100, 101, 118>>
(* "tb1q", "bc1q", "tb1p" and the request id "m1"                          *)
AddressTb1q == <<116, 98, 49, 113>>
AddressBc1q == <<98, 99, 49, 113>>
AddressTb1p == <<116, 98, 49, 112>>
IdM1 == <<109, 49>>
TxidAb == <<97, 98>>
SignedPsbtHex == <<99, 100>>

(* Every network name is accepted as testnet.                              *)
isTestnetAlways(normalizedNetwork) == TRUE

(* normalizedNetwork !== 'testnet', negated.                               *)
isTestnet(normalizedNetwork) == normalizedNetwork = TextTestnet

normaliseNetworkName(value) ==
  IF value = Null \/ value = <<>> THEN Null
  ELSE LET lowered == ToLowerCase(value) IN
    IF Includes(lowered, <<116, 101, 115, 116>>) THEN TextTestnet
    ELSE IF Includes(lowered, TextSignet) THEN TextSignet
    ELSE IF Includes(lowered, <<109, 97, 105, 110>>)
            \/ Includes(lowered, <<108, 105, 118, 101>>) THEN TextMainnet
    ELSE value

(* An answer of getNetwork or switchNetwork: an object with the fields     *)
(* network, net and chain (Null when absent), or something else.           *)
NetworkInfo(network, net, chainName) ==
  [isObject |-> TRUE, network |-> network, net |-> net, chain |-> chainName]
NotAnObject ==
  [isObject |-> FALSE, network |-> Null, net |-> Null, chain |-> Null]

extractNetworkName(info) ==
  IF ~info.isObject THEN Null
  ELSE LET candidate ==
             IF info.network # Null THEN info.network
             ELSE IF info.net # Null THEN info.net
             ELSE IF info.chain # Null THEN info.chain
             ELSE Null
       IN normaliseNetworkName(candidate)

inferNetworkFromAddress(address) ==
  IF address = Null \/ address = <<>> THEN Null
  ELSE LET lowered == ToLowerCase(address) IN
    IF \/ StartsWith(lowered, <<116, 98, 49>>)
       \/ StartsWith(lowered, <<98, 99, 114, 116>>)
       \/ StartsWith(lowered, <<109>>)
       \/ StartsWith(lowered, <<110>>)
       \/ StartsWith(lowered, <<50>>) THEN TextTestnet
    ELSE IF \/ StartsWith(lowered, <<98, 99, 49>>)
            \/ StartsWith(lowered, <<49>>)
            \/ StartsWith(lowered, <<51>>) THEN TextMainnet
    ELSE Null

ErrEmptyInscribe == "Cannot inscribe an empty payload."
ErrNoWallet == "UniSat wallet extension not detected. Install it and refresh this page."
ErrSwitch == "Please switch your UniSat wallet to Bitcoin Testnet and try again."
ErrNotTestnet == "UniSat wallet is not connected to Bitcoin Testnet. Switch networks and retry."
ErrNoPsbt == "UniSat PSBT methods not available. Update your extension."
ErrUnknownInscribe == "An unknown error occurred while inscribing."
ErrBroadcast == "Failed to broadcast transaction via UniSat"

(* What a collaborator threw: an Error with a message, or something else.  *)
ThrownError == [isError |-> TRUE, message |-> ErrWallet]
ThrownOther == [isError |-> FALSE, message |-> ""]
Thrown == {ThrownError, ThrownOther}
Rejects(thrown) == [threw |-> TRUE, thrown |-> thrown, value |-> Null]
Resolves(value) == [threw |-> FALSE, thrown |-> ThrownOther, value |-> value]

(* The requests: { id, address, payload }, id absent or present.           *)
InscribeRequests ==
  {[id |-> IdM1, address |-> AddressTb1p, payload |-> TextHi],
   [id |-> IdM1, address |-> AddressTb1p, payload |-> TextBlank],
   [id |-> Null, address |-> AddressTb1p, payload |-> <<32>> \o TextHi]}
(* window.unisat: absent, complete, without switchNetwork, without the     *)
(* PSBT methods.                                                           *)
Wallets ==
  {[present |-> FALSE, hasSwitch |-> FALSE, hasPsbt |-> FALSE],
   [present |-> TRUE, hasSwitch |-> TRUE, hasPsbt |-> TRUE],
   [present |-> TRUE, hasSwitch |-> FALSE, hasPsbt |-> TRUE],
   [present |-> TRUE, hasSwitch |-> TRUE, hasPsbt |-> FALSE]}
AccountAnswers ==
  {Resolves(<<>>), Resolves(<<AddressTb1q>>), Resolves(<<AddressBc1q>>)}
    \cup {Rejects(t) : t \in Thrown}
NetworkAnswers ==
  {Resolves(NotAnObject), Resolves(NetworkInfo(Null, Null, Null)),
   Resolves(NetworkInfo(TextTestnet, Null, Null)),
   Resolves(NetworkInfo(TextLivenet, Null, Null)),
   Resolves(NetworkInfo(TextSignet, Null, Null)),
   Resolves(NetworkInfo(TextTestnet4Upper, Null, Null)),
   Resolves(NetworkInfo(TextDev, Null, Null)),
   Resolves(NetworkInfo(Null, Null, TextTestnet))}
    \cup {Rejects(t) : t \in Thrown}
(* pushPsbt: a transaction id, an empty one, none, or a rejection.         *)
PushAnswers ==
  {Resolves(TxidAb), Resolves(<<>>), Resolves(Null)}
    \cup {Rejects(t) : t \in Thrown}
SignAnswers == {Resolves(SignedPsbtHex)} \cup {Rejects(t) : t \in Thrown}

EmptyRecord == [k \in {} |-> FALSE]
PendingResult == [success |-> FALSE, txid |-> Null, error |-> NoError]
failureResult(errorMessage) ==
  [success |-> FALSE, txid |-> Null, error |-> errorMessage]

(* No call has been made.                                                  *)
WalletIdle ==
  [pc |-> "idle", calls |-> 0,
   inscribing |-> EmptyRecord, inscriptionResults |-> EmptyRecord,
   walletError |-> NoError, walletAddress |-> Null, walletNetwork |-> Null,
   key |-> Null, address |-> Null, trimmedPayload |-> <<>>,
   wallet |-> [present |-> FALSE, hasSwitch |-> FALSE, hasPsbt |-> FALSE],
   primaryAccount |-> Null, accountInferredNetwork |-> Null, network |-> Null,
   response |-> [ok |-> FALSE, utxos |-> <<>>], utxos |-> <<>>,
   psbt |-> BuildThrew(""), signedPsbt |-> Null, txid |-> Null,
   returned |-> PendingResult, log |-> <<>>]

(* setInscriptionResults((prev) => ({ ...prev, [key]: result }));          *)
(* return result                                                           *)
ReturnResult(b, result) ==
  [b EXCEPT !.pc = IF result.success THEN "broadcast" ELSE "failed",
            !.inscriptionResults = (b.key :> result) @@ @,
            !.returned = result]

(* The finally block is left out.                                          *)
FinallyNothing(b) == b

(* finally { setInscribing((prev) => ({ ...prev, [key]: false })) }        *)
Finally(b) == [b EXCEPT !.inscribing = (b.key :> FALSE) @@ @]

(* err instanceof Error ? err.message : fallback                           *)
messageOf(thrown, fallback) ==
  IF thrown.isError THEN thrown.message ELSE fallback

(* The outer catch, then finally.                                          *)
OuterCatch(b, thrown) ==
  Finally(ReturnResult(b, failureResult(messageOf(thrown, ErrUnknownInscribe))))

(* The inner catch, then finally.                                          *)
InnerCatch(b, thrown) ==
  Finally(ReturnResult(b, failureResult(messageOf(thrown, ErrBroadcast))))

WalletFailed(b, message) == InnerCatch(b, [isError |-> TRUE, message |-> message])

(* Lines 901-936: up to the first await.                                   *)
InscribeStart(b, request, wallet) ==
  LET trimmedPayload == Trim(request.payload)
      key == IF request.id # Null THEN request.id
             ELSE request.address \o <<58>> \o SliceTo(trimmedPayload, 16)
      call == [b EXCEPT !.calls = @ + 1, !.key = key,
                        !.address = request.address,
                        !.trimmedPayload = trimmedPayload,
                        !.wallet = wallet,
                        !.primaryAccount = Null,
                        !.accountInferredNetwork = Null,
                        !.network = Null,
                        !.response = [ok |-> FALSE, utxos |-> <<>>],
                        !.utxos = <<>>,
                        !.psbt = BuildThrew(""),
                        !.signedPsbt = Null,
                        !.txid = Null,
                        !.returned = PendingResult,
                        !.log = <<>>]
  IN IF trimmedPayload = <<>>
       THEN ReturnResult(call, failureResult(ErrEmptyInscribe))
     ELSE IF ~wallet.present
       THEN ReturnResult([call EXCEPT !.walletError = ErrNoWallet],
                         failureResult(ErrNoWallet))
     ELSE [call EXCEPT !.pc = "accounts",
                       !.inscribing = (key :> TRUE) @@ @,
                       !.walletError = NoError,
                       !.inscriptionResults = (key :> PendingResult) @@ @,
                       !.log = <<"requestAccounts">>]

(* Lines 965-1002: the network the wallet resolved to is checked, the PSBT *)
(* methods are looked for, and fetchUtxos is called.                       *)
CheckNetwork(b) ==
  LET normalizedNetwork ==
        IF b.network # Null /\ b.network # <<>>
          THEN normaliseNetworkName(b.network) ELSE Null
  IN IF ~isTestnet(normalizedNetwork)
       THEN Finally(ReturnResult([b EXCEPT !.walletError = ErrNotTestnet],
                                 failureResult(ErrNotTestnet)))
     ELSE IF ~b.wallet.hasPsbt
       THEN Finally(ReturnResult([b EXCEPT !.walletNetwork = normalizedNetwork,
                                           !.walletError = ErrNoPsbt],
                                 failureResult(ErrNoPsbt)))
     ELSE [b EXCEPT !.walletNetwork = normalizedNetwork,
                    !.pc = "fetching",
                    !.log = Append(@, "fetchUtxos")]

InscribeCall(request, wallet) ==
  /\ bld.pc \in {"idle", "failed", "broadcast"}
  /\ bld.calls < MaxInscribes
  /\ bld' = InscribeStart(bld, request, wallet)
  /\ UNCHANGED <<sessionVars, chain, cry>>

(* await window.unisat.requestAccounts() settles; getNetwork is called.    *)
InscribeAccounts(answer) ==
  /\ bld.pc = "accounts"
  /\ bld' =
       IF answer.threw THEN OuterCatch(bld, answer.thrown)
       ELSE
         LET primaryAccount ==
               IF Len(answer.value) > 0 THEN answer.value[1] ELSE Null
             accountInferredNetwork == inferNetworkFromAddress(primaryAccount)
         IN [bld EXCEPT !.pc = "network",
                        !.primaryAccount = primaryAccount,
                        !.walletAddress = primaryAccount,
                        !.accountInferredNetwork = accountInferredNetwork,
                        !.walletNetwork =
                          IF accountInferredNetwork # Null /\ @ = Null
                            THEN accountInferredNetwork ELSE @,
                        !.log = Append(@, "getNetwork")]
  /\ UNCHANGED <<sessionVars, chain, cry>>

(* await window.unisat.getNetwork() settles; the wallet is asked to switch *)
(* when the network is not testnet and it offers switchNetwork.            *)
InscribeNetwork(answer) ==
  /\ bld.pc = "network"
  /\ bld' =
       IF answer.threw THEN OuterCatch(bld, answer.thrown)
       ELSE
         LET extracted == extractNetworkName(answer.value)
             network == IF extracted # Null THEN extracted
                        ELSE bld.accountInferredNetwork
         IN IF network # TextTestnet /\ bld.wallet.hasSwitch
              THEN [bld EXCEPT !.pc = "switching", !.network = network,
                               !.log = Append(@, "switchNetwork")]
            ELSE CheckNetwork([bld EXCEPT !.network = network])
  /\ UNCHANGED <<sessionVars, chain, cry>>

(* await window.unisat.switchNetwork('testnet') settles.                   *)
InscribeSwitch(answer) ==
  /\ bld.pc = "switching"
  /\ bld' =
       IF answer.threw
         THEN Finally(ReturnResult([bld EXCEPT !.walletError = ErrSwitch],
                                   failureResult(ErrSwitch)))
       ELSE
         LET extracted == extractNetworkName(answer.value)
             network == IF extracted # Null THEN extracted
                        ELSE IF bld.network # Null THEN bld.network
                        ELSE bld.accountInferredNetwork
         IN CheckNetwork([bld EXCEPT !.network = network])
  /\ UNCHANGED <<sessionVars, chain, cry>>

(* fetchUtxos settles; an empty list throws; the unsigned PSBT is built    *)
(* at 12 sat/vB and handed to the wallet.                                  *)
InscribeBuild(response) ==
  /\ bld.pc = "fetching"
  /\ LET fetched == fetchUtxos(response)
         b == [bld EXCEPT !.response = response]
     IN
       bld' =
         IF fetched.threw THEN WalletFailed(b, ErrFetchUtxos)
         ELSE IF Len(fetched.results) = 0 THEN WalletFailed(b, ErrNoUtxos)
         ELSE
           LET unsignedPsbt ==
                 buildOpReturnTransaction(b.primaryAccount, b.address,
                                          b.trimmedPayload, fetched.results,
                                          WalletFeeRate4)
               built == [b EXCEPT !.log = Append(@, "buildOpReturnTransaction")]
           IN IF unsignedPsbt.status = "ok"
                THEN [built EXCEPT !.pc = "signing",
                                   !.utxos = fetched.results,
                                   !.psbt = unsignedPsbt,
                                   !.log = Append(@, "signPsbt")]
              ELSE WalletFailed(built, unsignedPsbt.error)
  /\ UNCHANGED <<sessionVars, chain, cry>>

(* await window.unisat.signPsbt(unsignedPsbt) settles; pushPsbt is called. *)
InscribeSign(answer) ==
  /\ bld.pc = "signing"
  /\ bld' = IF answer.threw THEN InnerCatch(bld, answer.thrown)
            ELSE [bld EXCEPT !.pc = "pushing", !.signedPsbt = answer.value,
                             !.log = Append(@, "pushPsbt")]
  /\ UNCHANGED <<sessionVars, chain, cry>>

(* Every answer of pushPsbt counts as a transaction id.                   *)
noTxidNever(txid) == FALSE

(* !txid: null, undefined or the empty string.                             *)
noTxid(txid) == txid = Null \/ txid = <<>>

(* await window.unisat.pushPsbt(signedPsbt) settles: if (!txid) throws.    *)
InscribePush(answer) ==
  /\ bld.pc = "pushing"
  /\ bld' =
       IF answer.threw THEN InnerCatch(bld, answer.thrown)
       ELSE
         LET b == [bld EXCEPT !.txid = answer.value] IN
           IF noTxid(b.txid) THEN WalletFailed(b, ErrNoTxid)
           ELSE Finally(ReturnResult(b, [success |-> TRUE, txid |-> b.txid,
                                         error |-> NoError]))
  /\ UNCHANGED <<sessionVars, chain, cry>>

(* A call that reached fetchUtxos: the wallet is complete, its account is  *)
(* a testnet address and it reported testnet.                              *)
WalletInit ==
  bld =
    CheckNetwork(
      [[[InscribeStart(WalletIdle,
                       [id |-> IdM1, address |-> AddressTb1p, payload |-> TextHi],
                       [present |-> TRUE, hasSwitch |-> TRUE, hasPsbt |-> TRUE])
           EXCEPT !.primaryAccount = AddressTb1q]
           EXCEPT !.walletAddress = AddressTb1q]
           EXCEPT !.network = TextTestnet])

InitWallet ==
  /\ SessionVarsInit(NoLimits, <<>>)
  /\ cry = Unused
  /\ WalletInit

NextWallet ==
  \/ /\ bld.pc = "fetching"
     /\ \/ InscribeBuild([ok |-> FALSE, utxos |-> <<>>])
        \/ \E n \in 0..MaxWalletUtxos :
             \E f \in [1..n -> IndexerFields] :
               InscribeBuild([ok |-> TRUE, utxos |-> IndexerList(n, f)])
  \/ \E answer \in SignAnswers : InscribeSign(answer)
  \/ \E answer \in PushAnswers : InscribePush(answer)

SpecWallet == InitWallet /\ [][NextWallet]_vars

(* The outpoints the indexer reported as confirmed.                        *)
ConfirmedOutpoints ==
  {bld.response.utxos[i].id :
     i \in {j \in 1..Len(bld.response.utxos) : bld.response.utxos[j].status.confirmed}}

(* C16: fetchUtxos returns only outputs the indexer reports as confirmed,  *)
(* and every input of a transaction that inscribeWithWallet built, had     *)
(* signed and broadcast is such an output.                                 *)
C16_OnlyConfirmedSpent ==
  /\ bld.pc \in {"signing", "pushing", "broadcast"}
       => \A i \in 1..Len(bld.utxos) : bld.utxos[i].id \in ConfirmedOutpoints
  /\ bld.pc = "broadcast"
       => \A i \in 1..Len(bld.psbt.inputs) :
            bld.psbt.inputs[i].id \in ConfirmedOutpoints

(* A transaction was broadcast although the first output listed, which     *)
(* alone would have covered the target, was unconfirmed.                   *)
C16_UnconfirmedFirstPassedOver ==
  /\ bld.pc = "broadcast"
  /\ Len(bld.response.utxos) = 2
  /\ ~bld.response.utxos[1].status.confirmed
  /\ bld.response.utxos[1].value = IntegerValue(3000)
  /\ bld.response.utxos[1].scriptpubkey = "present"
  /\ Len(bld.psbt.inputs) = 1

(* The phrase as typed, once trimmed, collapsed and lowercased, has        *)
(* exactly twelve words of the word list and its last word is the          *)
(* checksum of the eleven before it.                                       *)
TwelveWordsWithChecksum(rawSecret) ==
  LET ws == Words(ToLowerCase(CollapseWhitespace(Trim(rawSecret)))) IN
    /\ Len(ws) = 12
    /\ \A i \in 1..12 : Len(ws[i]) = 1 /\ ws[i][1] \in 97..112
    /\ ws[12][1] - 97 = WeightedSum(<<>> \o [i \in 1..11 |-> ws[i][1] - 97]) % 16

LoginErrors ==
  {"The secret phrase must contain exactly 12 words.",
   "The provided secret phrase is not a valid BIP39 mnemonic."}

(* C17: a login call ends with isLoggedIn = true only if the phrase has    *)
(* exactly 12 words and passes the checksum; a call with any other phrase  *)
(* sets an error message, leaves isLoggedIn false and derives no           *)
(* addresses.                                                              *)
C17_LoginValidation ==
  [][\A i \in 1..Len(logins') :
       /\ (logins'[i].pc = "done" /\ (i > Len(logins) \/ logins[i].pc # "done"))
            => TwelveWordsWithChecksum(logins'[i].rawSecret)
       /\ (i > Len(logins) /\ ~TwelveWordsWithChecksum(logins'[i].rawSecret))
            => /\ logins'[i].pc = "rejected"
               /\ error' \in LoginErrors
               /\ ~isLoggedIn'
               /\ addresses' = addresses
               /\ secret' = secret]_vars

(* A phrase typed with a tab, upper case and doubled spaces was accepted,  *)
(* and a later call with a wrong checksum word was rejected.               *)
C17_AcceptedThenRejected ==
  \E i, j \in 1..Len(logins) :
    /\ i < j
    /\ logins[i].pc = "done" /\ logins[i].rawSecret = Secret1Typed
    /\ logins[j].pc = "rejected" /\ logins[j].rawSecret = PhraseBadChecksum
    /\ ~isLoggedIn
    /\ error \in LoginErrors

(***************************************************************************)
(* The fetch model: a session that has logged in on an empty ledger and    *)
(* scans while transactions of every shape are published and the clock     *)
(* advances.                                                               *)
(***************************************************************************)
FetchMaxScans == 1
FetchMaxTxs == 5

(* 11: confirmed at second 5, and its metadata reports a received time.    *)
(* 12: unconfirmed, first seen at second 4.  13: unconfirmed, no time      *)
(* reported.  14: no OP_RETURN output.  15: an OP_RETURN of spaces.        *)
FetchTxs(n) ==
  SubSeq(<< Tx(11, <<Addresses1[1]>>, PayloadHi1, 5, <<7, 0, 0, 0, 0>>),
            Tx(12, <<Addresses1[2]>>, PayloadYo1, 0, <<0, 0, 4, 0, 0>>),
            Tx(13, <<Addresses1[1]>>, PayloadHi1, 0, NoMeta),
            Tx(14, <<Addresses1[1]>>, Null, 6, NoMeta),
            Tx(15, <<Addresses1[2]>>, TextBlank, 6, NoMeta) >>, 1, Min(n, 5))

(* The scans of the fetch model run one after the other.                   *)
FetchLimits ==
  [calls |-> 1 + FetchMaxScans, ticks |-> MaxTicks, inflight |-> 1,
   faults |-> MaxFaults]

InitFetch == LoggedInInit(FetchLimits, FetchTxs(FetchMaxTxs), 0, Secret1)

NextFetch ==
  \/ Publish
  \/ TickStep
  \/ CheckNext

SpecFetch == InitFetch /\ [][NextFetch]_vars

(* The transaction of the chain with this id.                              *)
ChainTx(id) == CHOOSE j \in 1..Len(chain) : chain[j].txid = id
ReportedTimes(tx) == SelectSeq(tx.meta, LAMBDA v : v > 0)

IsNonBlank(text) == \E k \in 1..Len(text) : ~IsJsWhitespace(text[k])

(* C19: a scan produces an entry for a transaction and a mailbox address   *)
(* only if the address is the address of one of the transaction's outputs  *)
(* and the transaction has an OP_RETURN output whose text is not empty;    *)
(* when no request fails it produces one for every such transaction it is  *)
(* given, confirmed or not.                                                *)
C19_EntryOnlyForRecipient ==
  \A i \in 1..Len(scans) :
    /\ \A k \in 1..Len(scans[i].fetched) :
         LET entry == scans[i].fetched[k]
             tx == chain[ChainTx(entry.id)]
         IN /\ \E o \in 1..Len(tx.vout) : tx.vout[o] = entry.address
            /\ tx.opReturn # Null
            /\ IsNonBlank(tx.opReturn)
    /\ (scans[i].pc # "fetch" /\ ~scans[i].faulty)
         => \A j \in 1..Len(chain), a \in 1..Len(scans[i].addresses) :
              (/\ chain[j].txid \in scans[i].ledgerAt
               /\ \E o \in 1..Len(chain[j].vout) : chain[j].vout[o] = scans[i].addresses[a]
               /\ chain[j].opReturn # Null
               /\ IsNonBlank(chain[j].opReturn))
                => \E k \in 1..Len(scans[i].fetched) :
                     /\ scans[i].fetched[k].id = chain[j].txid
                     /\ scans[i].fetched[k].address = scans[i].addresses[a]

(* A scan that was given all five transactions produced entries for the    *)
(* confirmed one and the two unconfirmed ones, each for one address.       *)
C19_ConfirmedAndMempool ==
  \E i \in 1..Len(scans) :
    /\ Cardinality(scans[i].ledgerAt) = 5
    /\ ~scans[i].faulty
    /\ Len(scans[i].fetched) = 3
    /\ \E k \in 1..3 : chain[ChainTx(scans[i].fetched[k].id)].block_time = 0
    /\ \E k \in 1..3 : chain[ChainTx(scans[i].fetched[k].id)].block_time # 0

TimelineIds(msgs) == {msgs[k].id : k \in 1..Len(msgs)}

(* C20: when a checkForMessages call finishes, normally or through its     *)
(* catch block, every id the call added to the seen-set is the id of a     *)
(* message in the timeline, and no entry that failed to decrypt was marked *)
(* seen by the call.                                                       *)
C20_SeenIdsHaveMessages ==
  [][\A i \in 1..Len(scans) :
       (scans[i].pc # "done" /\ scans'[i].pc = "done")
         => /\ scans'[i].added \subseteq TimelineIds(messages')
            /\ \A k \in 1..Len(scans'[i].fetched) :
                 decryptMessage(scans'[i].secret, scans'[i].fetched[k].payload) = Null
                   => scans'[i].fetched[k].id \notin scans'[i].added]_vars

(* A call has finished that marked one id seen and fetched another entry,  *)
(* encrypted under a different secret, which it did not mark.              *)
C20_OneMarkedOneUnreadable ==
  \E i \in 1..Len(scans) :
    /\ scans[i].pc = "done"
    /\ scans[i].added # {}
    /\ scans[i].added \subseteq TimelineIds(messages)
    /\ \E k \in 1..Len(scans[i].fetched) :
         /\ decryptMessage(scans[i].secret, scans[i].fetched[k].payload) = Null
         /\ scans[i].fetched[k].id \notin seenInscriptionIds

ErrEncrypt == "We could not encrypt the message. Please try again."
OutboundIn(msgs) == {k \in 1..Len(msgs) : msgs[k].direction = "outbound"}

(* C21: a sendMessage call either appends exactly one outbound message to  *)
(* the timeline and exactly one pending instruction, or changes neither:   *)
(* a call whose message is blank never starts an encryption, and a call    *)
(* whose encryption fails sets the error text and leaves both lists as     *)
(* they were.                                                              *)
C21_SendAllOrNothing ==
  [][/\ sends' # sends
          => \/ /\ messages' = messages
                /\ pendingOutbound' = pendingOutbound
             \/ /\ Len(messages') = Len(messages) + 1
                /\ Cardinality(OutboundIn(messages')) = Cardinality(OutboundIn(messages)) + 1
                /\ \A k \in 1..Len(messages) : \E j \in 1..Len(messages') : messages'[j] = messages[k]
                /\ Len(pendingOutbound') = Len(pendingOutbound) + 1
                /\ SubSeq(pendingOutbound', 1, Len(pendingOutbound)) = pendingOutbound
     /\ \A i \in 1..Len(sends) :
          (sends[i].pc = "encrypt" /\ sends'[i].pc = "done" /\ messages' = messages)
            => error' = ErrEncrypt
     /\ Len(sends') > Len(sends)
          => /\ IsNonBlank(sends'[Len(sends')].message)
             /\ messages' = messages
             /\ pendingOutbound' = pendingOutbound]_vars

(* One call has appended its message and its instruction, and a later call *)
(* whose encryption failed has left them alone.                            *)
C21_SentThenFailed ==
  /\ Len(sends) = 2
  /\ \A i \in 1..2 : sends[i].pc = "done"
  /\ Cardinality(OutboundIn(messages)) = 1
  /\ Len(pendingOutbound) = 1
  /\ error = ErrEncrypt

(* C22: in every reachable state each pending outbound instruction has the *)
(* id, the payload and the target address of an outbound message of the    *)
(* timeline, the one its sendMessage call created.                         *)
C22_InstructionMatchesMessage ==
  \A k \in 1..Len(pendingOutbound) :
    \E j \in OutboundIn(messages) :
      /\ messages[j].id = pendingOutbound[k].id
      /\ messages[j].encrypted = pendingOutbound[k].payload
      /\ messages[j].address = pendingOutbound[k].address
      /\ messages[j].content = pendingOutbound[k].message

(* Two instructions are pending and the second goes to the second mailbox. *)
C22_SecondInstructionSecondMailbox ==
  /\ Len(pendingOutbound) = 2
  /\ pendingOutbound[1].address = addresses[1]
  /\ pendingOutbound[2].address = addresses[2]

(* C23: while the session is logged in, the timeline, the pending list and *)
(* the seen-set hold only items produced under its secret: every message   *)
(* and every pending payload decrypts under it to its text, and every      *)
(* transaction marked seen decrypts under it.  A call that started under   *)
(* an earlier secret and finishes after the login adds nothing.            *)
C23_OnlyCurrentSecretItems ==
  (isLoggedIn /\ secret # Null)
    => /\ \A k \in 1..Len(messages) :
            decryptMessage(secret, messages[k].encrypted) = messages[k].content
       /\ \A k \in 1..Len(pendingOutbound) :
            decryptMessage(secret, pendingOutbound[k].payload) = pendingOutbound[k].message
       /\ \A j \in 1..Len(chain) :
            chain[j].txid \in seenInscriptionIds
              => decryptMessage(secret, extractOpReturnData(chain[j])) # Null

ErrScan == "We could not read inscriptions from the chain."

(* C24: when the request for a mailbox address fails, the scan still       *)
(* produces the entries of the other addresses and none for that one; the  *)
(* call finishes with the error cleared; no step of it removes or changes  *)
(* a timeline message, and the session stays logged in.                    *)
C24_AddressFailureIsSkipped ==
  [][\A i \in 1..Len(scans) :
       (scans'[i] # scans[i] /\ scans'[i].net.addr # {})
         => /\ (scans[i].pc = "fetch")
                 => /\ \A k \in 1..Len(scans'[i].fetched) :
                         scans'[i].fetched[k].address \notin scans'[i].net.addr
                    /\ \A j \in 1..Len(chain), a \in 1..Len(scans[i].addresses) :
                         (/\ chain[j].txid \in ledger
                          /\ scans[i].addresses[a] \notin scans'[i].net.addr
                          /\ \E o \in 1..Len(chain[j].vout) :
                               chain[j].vout[o] = scans[i].addresses[a]
                          /\ chain[j].opReturn # Null
                          /\ IsNonBlank(chain[j].opReturn))
                           => \E k \in 1..Len(scans'[i].fetched) :
                                /\ scans'[i].fetched[k].id = chain[j].txid
                                /\ scans'[i].fetched[k].address = scans[i].addresses[a]
            /\ scans'[i].pc = "done" => error' = NoError
            /\ error' # ErrScan
            /\ \A k \in 1..Len(messages) : \E j \in 1..Len(messages') : messages'[j] = messages[k]
            /\ isLoggedIn' = isLoggedIn
            /\ secret' = secret
            /\ addresses' = addresses]_vars

(* A scan whose request for the first address failed has finished: it      *)
(* fetched entries for another address, the timeline it found is still     *)
(* there and no error is set.                                              *)
C24_FinishedDespiteFailure ==
  \E i \in 1..Len(scans) :
    /\ scans[i].pc = "done"
    /\ scans[i].net.addr # {}
    /\ scans[i].fetched # <<>>
    /\ messages # <<>>
    /\ error = NoError
    /\ isLoggedIn

ErrDerive == "We could not derive your keys. Please retry with a valid mnemonic."

(* C25: when the address derivation or the first scan of a login throws,   *)
(* the call ends with the session logged out, the secret cleared and the   *)
(* address list, the timeline, the pending list and the seen-set empty.    *)
C25_FailedLoginClearsSession ==
  [][\A i \in 1..Len(logins) :
       (logins[i].pc # "failed" /\ logins'[i].pc = "failed")
         => /\ ~isLoggedIn'
            /\ secret' = Null
            /\ addresses' = <<>>
            /\ messages' = <<>>
            /\ pendingOutbound' = <<>>
            /\ seenInscriptionIds' = {}
            /\ error' = ErrDerive
            /\ ~isLoading']_vars

(* A login has failed after another had completed, and nothing of the      *)
(* earlier session is left.                                                *)
C25_FailedAfterCompleted ==
  \E i, j \in 1..Len(logins) :
    /\ i < j
    /\ logins[i].pc = "done"
    /\ logins[j].pc = "failed"
    /\ secret = Null
    /\ addresses = <<>>
    /\ messages = <<>>
    /\ ~isLoggedIn


(***************************************************************************)
(* The calls of inscribeWithWallet, one at a time, against any wallet.     *)
(* The indexer's answers are a failure, an empty list, an unconfirmed      *)
(* output, one that covers the target and one that does not.               *)
(***************************************************************************)
InscribeResponses ==
  {[ok |-> FALSE, utxos |-> <<>>], [ok |-> TRUE, utxos |-> <<>>]}
    \cup {[ok |-> TRUE,
           utxos |-> <<[id |-> 1, value |-> IntegerValue(v),
                        status |-> [confirmed |-> c],
                        scriptpubkey |-> "present"]>>] :
            v \in {1500, 3000}, c \in BOOLEAN}

(* The session is logged in and its timeline holds a message.             *)
InitInscribe ==
  /\ LoggedInVarsInit(NoLimits, FirstTxs(1), 1, Secret1)
  /\ cry = Unused
  /\ bld = WalletIdle

NextInscribe ==
  \/ /\ bld.pc \in {"idle", "failed", "broadcast"}
     /\ bld.calls < MaxInscribes
     /\ \E request \in InscribeRequests : \E wallet \in Wallets :
          InscribeCall(request, wallet)
  \/ \E answer \in AccountAnswers : InscribeAccounts(answer)
  \/ \E answer \in NetworkAnswers : InscribeNetwork(answer)
  \/ \E answer \in NetworkAnswers : InscribeSwitch(answer)
  \/ \E response \in InscribeResponses : InscribeBuild(response)
  \/ \E answer \in SignAnswers : InscribeSign(answer)
  \/ \E answer \in PushAnswers : InscribePush(answer)

SpecInscribe == InitInscribe /\ [][NextInscribe]_vars


(* The call in progress, or the last one, has called the method.           *)
Called(method) == \E k \in 1..Len(bld.log) : bld.log[k] = method

(* C26: signPsbt and pushPsbt are called only in a call whose network,     *)
(* after the switch attempt if there was one, resolved to testnet; a call  *)
(* whose network resolved to anything else returned a failure.             *)
C26_SignsOnlyOnTestnet ==
  /\ (Called("signPsbt") \/ Called("pushPsbt") \/ bld.returned.success)
       => normaliseNetworkName(bld.network) = TextTestnet
  /\ (bld.pc \in {"failed", "broadcast"}
        /\ normaliseNetworkName(bld.network) # TextTestnet)
       => /\ bld.pc = "failed"
          /\ ~bld.returned.success
          /\ bld.key \in DOMAIN bld.inscriptionResults
          /\ ~bld.inscriptionResults[bld.key].success

(* A wallet on mainnet that answered the switch with mainnet was refused,  *)
(* and the next call, whose wallet switched to testnet, was broadcast.     *)
C26_RefusedThenSwitched ==
  /\ bld.calls = 2
  /\ bld.pc = "broadcast"
  /\ Called("switchNetwork")
  /\ \E k \in DOMAIN bld.inscriptionResults :
       k # bld.key /\ bld.inscriptionResults[k].error = ErrNotTestnet

(* The calls of the call in progress, or of the last one, from fetchUtxos  *)
(* on, in the order they were made.                                        *)
InscribeSteps ==
  SelectSeq(bld.log,
            LAMBDA method : method \in {"fetchUtxos", "buildOpReturnTransaction",
                                        "signPsbt", "pushPsbt"})

(* C27: the calls are made in the order fetchUtxos, build, signPsbt,       *)
(* pushPsbt, each only after the one before it succeeded (a non-empty list *)
(* of outputs, a built transaction, a signed one), and the result returned *)
(* has success = true exactly when pushPsbt answered with a non-empty      *)
(* transaction id, which the result then carries.                          *)
C27_StepsInOrder ==
  /\ InscribeSteps =
       SubSeq(<<"fetchUtxos", "buildOpReturnTransaction", "signPsbt", "pushPsbt">>,
              1, Len(InscribeSteps))
  /\ Called("buildOpReturnTransaction")
       => /\ ~fetchUtxos(bld.response).threw
          /\ Len(fetchUtxos(bld.response).results) > 0
  /\ Called("signPsbt")
       => /\ bld.psbt.status = "ok"
          /\ bld.psbt =
               buildOpReturnTransaction(bld.primaryAccount, bld.address,
                                        bld.trimmedPayload,
                                        fetchUtxos(bld.response).results,
                                        WalletFeeRate4)
  /\ Called("pushPsbt") => bld.signedPsbt = SignedPsbtHex
  /\ bld.returned.success
       <=> (Called("pushPsbt") /\ bld.txid # Null /\ bld.txid # <<>>)
  /\ bld.returned.success => bld.returned.txid = bld.txid

(* A call whose broadcast answered with an empty transaction id failed,    *)
(* and the next call went through all four steps and succeeded.            *)
C27_EmptyTxidThenBroadcast ==
  /\ bld.calls = 2
  /\ bld.returned.success
  /\ bld.returned.txid = TxidAb
  /\ Len(InscribeSteps) = 4
  /\ \E k \in DOMAIN bld.inscriptionResults :
       k # bld.key /\ bld.inscriptionResults[k].error = ErrNoTxid

(* The call has stopped with a failure: the result it returned is stored   *)
(* under its key with success = false and the key is not left inscribing.  *)
FailureStoredAndReleased(b) ==
  b.pc = "failed"
    => /\ ~b.returned.success
       /\ b.key \in DOMAIN b.inscriptionResults
       /\ b.inscriptionResults[b.key] = b.returned
       /\ b.key \in DOMAIN b.inscribing => ~b.inscribing[b.key]
       /\ b.log # <<>> => (b.key \in DOMAIN b.inscribing /\ ~b.inscribing[b.key])

(* C28: no step of inscribeWithWallet changes the timeline, the pending    *)
(* list, the seen-set, the secret or the address list; a call always ends  *)
(* by returning a result, and when it ends in a failure (no outputs, a     *)
(* build error, a refusal to sign, a failed broadcast, or any earlier      *)
(* cause) that result is stored under the request key with success =      *)
(* false and inscribing[key] is false again.                               *)
C28_FailureLeavesSessionAlone ==
  [][bld' # bld
       => /\ messages' = messages
          /\ pendingOutbound' = pendingOutbound
          /\ seenInscriptionIds' = seenInscriptionIds
          /\ secret' = secret
          /\ addresses' = addresses
          /\ FailureStoredAndReleased(bld')
          /\ bld'.pc = "broadcast"
               => /\ bld'.returned.success
                  /\ bld'.inscriptionResults[bld'.key] = bld'.returned
                  /\ ~bld'.inscribing[bld'.key]]_vars

(* The same request was issued a second time after it had failed, and the  *)
(* wallet refused to sign: the failure is stored and the key released,     *)
(* with the session's timeline as it was.                                  *)
C28_ReissuedAndRefused ==
  /\ bld.calls = 2
  /\ Cardinality(DOMAIN bld.inscriptionResults) = 1
  /\ bld.pc = "failed"
  /\ Called("signPsbt")
  /\ ~Called("pushPsbt")
  /\ bld.returned.error = ErrWallet
  /\ bld.inscribing[bld.key] = FALSE
  /\ messages # <<>>
  /\ seenInscriptionIds # {}

(***************************************************************************)
(* The local queue.  window.EphemeralSim.enqueueInbound queues payloads    *)
(* for a mailbox of the session and for an address that is not one of its  *)
(* mailboxes, a transaction may reach the indexer, and the session scans.  *)
(***************************************************************************)
QueueMaxCalls == 4

(* Two scans may overlap and the requests of one scan may fail.            *)
QueueLimits ==
  [calls |-> 1 + QueueMaxCalls, ticks |-> 0, inflight |-> 2, faults |-> 1]

InitQueue == LoggedInInit(QueueLimits, FirstTxs(1), 0, Secret1)

NextQueue ==
  \/ Publish
  \/ /\ MayCall
     /\ \E address \in {Addresses1[1], Addresses2[1]}, payload \in EnqueuePayloads :
          enqueueSimulatedInbound(Secret1, address, payload)
  \/ CheckNext

SpecQueue == InitQueue /\ [][NextQueue]_vars

IdsOf(entries) == {entries[k].id : k \in 1..Len(entries)}

(* The queued entries (their ids are UUIDs) that scan i was handed.        *)
QueuedReturned(i) ==
  {scans[i].fetched[k].id :
     k \in {j \in 1..Len(scans[i].fetched) : scans[i].fetched[j].id[1] = "uuid"}}

(* C29: when the fetch of a scan settles, it hands over queued entries     *)
(* only if the ledger query produced no entry; the queued entries handed   *)
(* over are exactly those whose address is in the scan's mailbox list;     *)
(* they leave the queue and the others stay, in their order; and no queued *)
(* entry is handed to two scans.                                           *)
C29_QueueFallback ==
  [][\A i \in 1..Len(scans) :
       (scans[i].pc = "fetch" /\ scans'[i].pc # "fetch")
         => LET p == scans[i]
                queue == InboxOf(p.secret)
                left == inbox'[p.secret]
                returned == scans'[i].fetched
                ledgerEntries ==
                  fetchRealBlockchainTransactions(p.addresses, LedgerTxs,
                                                  scans'[i].net, now)
                handed == {k \in 1..Len(returned) : returned[k].id \in IdsOf(queue)}
            IN /\ handed # {} => ledgerEntries = <<>>
               /\ ledgerEntries # <<>> => left = queue
               /\ \A k \in handed : returned[k].address \in Range(p.addresses)
               /\ ledgerEntries = <<>>
                    => \A k \in 1..Len(queue) :
                         queue[k].address \in Range(p.addresses)
                           => queue[k] \in Range(returned)
               /\ left = SelectSeq(queue, LAMBDA item : item.id \notin IdsOf(returned))
               /\ \A j \in 1..Len(scans) :
                    j # i => QueuedReturned(j) \cap IdsOf(returned) = {}]_vars

(* Two scans have returned with the ledger empty: the first was handed the *)
(* entry queued for a mailbox, the entry queued for another address is     *)
(* still queued, and the second scan was handed nothing.                   *)
C29_HandedOnceForeignLeft ==
  /\ Len(scans) = 2
  /\ scans[1].pc = "done"
  /\ scans[2].pc = "done"
  /\ ledger = {}
  /\ Cardinality(QueuedReturned(1)) = 1
  /\ scans[2].fetched = <<>>
  /\ Len(inbox[Secret1]) = 1
  /\ inbox[Secret1][1].address = Addresses2[1]

(***************************************************************************)
(* deriveTaprootAddresses as a function: a phrase is chosen, and the       *)
(* addresses are derived for one count after another.  bld holds the last  *)
(* call and the one before it.  The counts are integers.                   *)
(***************************************************************************)
MaxDeriveCount == 5

DeriveSecrets == {Secret1, Secret1Typed, Secret2, PhraseBadChecksum}

NoOutcome == [threw |-> TRUE, addresses |-> <<>>]

InitDerive ==
  /\ SessionVarsInit(NoLimits, <<>>)
  /\ cry = Unused
  /\ \E s \in DeriveSecrets :
       bld = [pc |-> "idle", secret |-> s, count |-> 0, outcome |-> NoOutcome,
              countBefore |-> 0, outcomeBefore |-> NoOutcome]

DeriveCall(count) ==
  /\ bld' = [pc |-> "derived", secret |-> bld.secret, count |-> count,
             outcome |-> derive(bld.secret, count),
             countBefore |-> bld.count, outcomeBefore |-> bld.outcome]
  /\ UNCHANGED <<sessionVars, chain, cry>>

NextDerive == \E count \in (-1)..MaxDeriveCount : DeriveCall(count)

SpecDerive == InitDerive /\ [][NextDerive]_vars

(* C30: a call with count <= 0 fails; a call with a valid phrase and a     *)
(* count of at least 1 returns count addresses, the one at position i      *)
(* (from 0) being the address of path index i; and of two calls that       *)
(* returned, the list for the smaller count is the beginning of the list   *)
(* for the larger.                                                         *)
C30_CountAddressesInPathOrder ==
  bld.pc = "derived"
    => LET normalized == normaliseMnemonic(bld.secret)
           returned == bld.outcome.addresses
           before == bld.outcomeBefore.addresses
       IN /\ bld.count <= 0 => bld.outcome.threw
          /\ (bld.count > 0 /\ validateMnemonic(normalized))
               => /\ ~bld.outcome.threw
                  /\ Len(returned) = bld.count
                  /\ \A i \in 0..(bld.count - 1) :
                       returned[i + 1] = P2trAddress(mnemonicToSeed(normalized), i)
                  /\ \A i, j \in 1..bld.count : i # j => returned[i] # returned[j]
          /\ (~bld.outcome.threw /\ ~bld.outcomeBefore.threw)
               => IF bld.countBefore <= bld.count
                    THEN SubSeq(returned, 1, bld.countBefore) = before
                  ELSE SubSeq(before, 1, bld.count) = returned

(* Three addresses were derived for a phrase typed with capitals and       *)
(* spaces, after two had been derived for it.                              *)
C30_ThreeAfterTwo ==
  /\ bld.pc = "derived"
  /\ bld.secret = Secret1Typed
  /\ bld.count = 3
  /\ Len(bld.outcome.addresses) = 3
  /\ bld.countBefore = 2
  /\ Len(bld.outcomeBefore.addresses) = 2

(***************************************************************************)
(* Properties of the timeline's ids.                                       *)
(***************************************************************************)
(* C31: no two messages of the timeline have the same id, also when one    *)
(* transaction pays several mailboxes of the session and a login scan or   *)
(* a checkForMessages scan returns it once per mailbox.                    *)
C31_TimelineIdsUnique ==
  \A i, j \in 1..Len(messages) :
    i # j => messages[i].id # messages[j].id

(***************************************************************************)
(* The session and the wallet together: the session sends, the pending     *)
(* instruction is handed to inscribeWithWallet as the chat does            *)
(* (triggerInscribe(item.id, item.address, item.payload)), the transaction *)
(* the wallet broadcast reaches the indexer, and the session scans.  The   *)
(* wallet is complete and on testnet and its account has one confirmed     *)
(* output that covers the target.                                          *)
(***************************************************************************)
RelayMaxCalls == 3

RelayLimits ==
  [calls |-> 1 + RelayMaxCalls, ticks |-> 0, inflight |-> 1, faults |-> 0]

RelayWallet == [present |-> TRUE, hasSwitch |-> TRUE, hasPsbt |-> TRUE]

RelayResponse ==
  [ok |-> TRUE,
   utxos |-> <<[id |-> 1, value |-> IntegerValue(3000),
                status |-> [confirmed |-> TRUE], scriptpubkey |-> "present"]>>]

(* The transaction ids the wallet has returned are those of the chain.     *)
RelayTxid == <<"tx", 21 + Len(chain)>>

InitRelay ==
  /\ LoggedInVarsInit(RelayLimits, <<>>, 0, Secret1)
  /\ cry = Unused
  /\ bld = WalletIdle

(* The transaction of the last successful call reaches the indexer: its    *)
(* outputs are those of the PSBT that was built, signed and pushed.        *)
Indexed ==
  /\ bld.pc = "broadcast"
  /\ \A k \in 1..Len(chain) : chain[k].txid # bld.txid
  /\ LET outputs == bld.psbt.outputs
         paid == SelectSeq(outputs, LAMBDA out : "address" \in DOMAIN out)
         data == SelectSeq(outputs, LAMBDA out : "opReturn" \in DOMAIN out)
     IN chain' = Append(chain,
          [txid |-> bld.txid,
           vout |-> <<>> \o [k \in 1..Len(paid) |-> paid[k].address],
           opReturn |-> TextDecode(data[1].opReturn),
           block_time |-> 0, meta |-> NoMeta])
  /\ ledger' = ledger \cup {bld.txid}
  /\ UNCHANGED <<reactVars, inbox, now, uuid, callVars, histVars, pureVars>>

NextRelay ==
  \/ SendNext
  \/ CheckNext
  \/ \E k \in 1..Len(pendingOutbound) :
       InscribeCall([id |-> pendingOutbound[k].id,
                     address |-> pendingOutbound[k].address,
                     payload |-> pendingOutbound[k].payload], RelayWallet)
  \/ InscribeAccounts(Resolves(<<AddressTb1q>>))
  \/ InscribeNetwork(Resolves(NetworkInfo(TextTestnet, Null, Null)))
  \/ InscribeBuild(RelayResponse)
  \/ InscribeSign(Resolves(SignedPsbtHex))
  \/ \E answer \in {Resolves(RelayTxid), Rejects(ThrownError)} : InscribePush(answer)
  \/ Indexed

SpecRelay == InitRelay /\ [][NextRelay]_vars

(* C32: a message the session sent and broadcast is in the timeline once:  *)
(* a checkForMessages that finds its transaction on the ledger does not    *)
(* add it again, as an inbound message carrying the ciphertext of the      *)
(* outbound one.                                                           *)
C32_SentMessageOnce ==
  \A k, j \in 1..Len(messages) :
    (messages[k].direction = "outbound" /\ messages[j].direction = "inbound")
      => messages[j].encrypted # messages[k].encrypted

(* The request for the raw hex of transaction t failed in scan p although  *)
(* the indexer listed the transaction.                                     *)
HexFailed(p, t) == t \in scans[p].net.hex /\ t \in scans[p].ledgerAt

(* C33: a step of a scan whose raw-hex request for a transaction failed    *)
(* does not mark that transaction seen; and once a later checkForMessages  *)
(* of the session, called after that scan returned and meeting no failed   *)
(* request, has returned, the transaction's message is in the timeline if  *)
(* its payload decrypts, or a scan of the session that is still in flight  *)
(* has marked the transaction seen and is about to add the message.        *)
C33_FailedFetchIsRetried ==
  [][/\ \A i \in 1..Len(scans) :
          (i \in 1..Len(scans') /\ scans'[i] # scans[i])
            => (seenInscriptionIds' \ seenInscriptionIds) \cap scans'[i].net.hex = {}
     /\ \A p, q \in 1..Len(scans') :
          ( /\ p \in scans'[q].after
            /\ scans'[p].pc = "done" /\ scans'[q].pc = "done"
            /\ scans'[p].epoch = epoch' /\ scans'[q].epoch = epoch'
            /\ scans'[q].net = NetOk )
            => \A k \in 1..Len(chain) :
                 ( /\ chain[k].txid \in scans'[p].net.hex
                   /\ chain[k].txid \in scans'[p].ledgerAt
                   /\ chain[k].txid \in scans'[q].ledgerAt
                   /\ chain[k].opReturn # Null
                   /\ Decryptable(scans'[q].secret, Trim(chain[k].opReturn))
                   /\ \E a \in 1..Len(scans'[q].addresses) :
                        scans'[q].addresses[a] \in Range(chain[k].vout) )
                   => \/ chain[k].txid \in TimelineIds(messages')
                      \/ \E r \in 1..Len(scans') :
                           /\ scans'[r].pc # "done"
                           /\ scans'[r].epoch = epoch'
                           /\ chain[k].txid \in scans'[r].added]_vars

(* The session logged in before the transaction was published; the first   *)
(* scan could not read its raw hex and left the timeline and the seen-set  *)
(* empty; the second scan read it and its message is in the timeline.      *)
C33_ReadOnSecondScan ==
  /\ Len(scans) = 2
  /\ scans[1].pc = "done"
  /\ scans[2].pc = "done"
  /\ 1 \in scans[2].after
  /\ HexFailed(1, chain[1].txid)
  /\ scans[1].fetched = <<>>
  /\ scans[1].added = {}
  /\ scans[2].net = NetOk
  /\ chain[1].txid \in scans[2].added
  /\ chain[1].txid \in TimelineIds(messages)

(* C34: once the UTXOs taken are worth at least the funding target         *)
(* 546 + feeRate * 178, the build returns a transaction: the change        *)
(* computed with the fee for the inputs taken is never negative.  (The     *)
(* payload is valid and no UTXO the loop reaches lacks a script.)          *)
C34_TargetReachedBuilds ==
  (bld.pc = "returned" /\ PayloadValid
     /\ (\A j \in 1..Reach : bld.utxos[j].scriptPubKey)
     /\ Covers(Reach))
    => /\ Built
       /\ ~Rejected(ErrInsufficientBalance)

(***************************************************************************)
(* Sending messages of 32 and 33 bytes.  The payload is the base64 text of *)
(* 12 bytes of nonce, the ciphertext and 16 bytes of tag.                  *)
(***************************************************************************)
LongMaxSends == 3
LongMessages == {Repeat(97, 32), Repeat(97, 33)}
LongLimits ==
  [calls |-> 1 + LongMaxSends, ticks |-> 0, inflight |-> 2, faults |-> 0]

InitLong == LoggedInInit(LongLimits, <<>>, 0, Secret1)

NextLong ==
  \/ MayCall /\ Free /\ \E raw \in LongMessages : SendCall(raw)
  \/ \E i \in 1..Len(sends), iv \in Nonces, cryptoOk \in BOOLEAN :
       SendCommit(i, iv, cryptoOk)
  \/ \E id \in PendingIds : acknowledgeOutbound(id)

SpecLong == InitLong /\ [][NextLong]_vars

(* C35: every outbound message of the timeline and every pending           *)
(* instruction has a payload of at most 80 bytes, so that it passes the    *)
(* size check of buildOpReturnTransaction.                                 *)
C35_PayloadWithinLimit ==
  /\ \A k \in 1..Len(messages) :
       messages[k].direction = "outbound"
         => Len(TextEncode(messages[k].encrypted)) <= OP_RETURN_LIMIT
  /\ \A k \in 1..Len(pendingOutbound) :
       Len(TextEncode(pendingOutbound[k].payload)) <= OP_RETURN_LIMIT

(* A message of 32 bytes gives a payload of exactly 80 bytes and one of 33 *)
(* bytes a payload of 84.                                                  *)
PayloadLengthOfMessage ==
  \A k \in 1..Len(messages) :
    messages[k].direction = "outbound"
      => Len(messages[k].encrypted)
           = 4 * ((IV_LENGTH + Len(TextEncode(messages[k].content)) + TAG_LENGTH + 2) \div 3)

(* C36: for one message id at most one transaction is broadcast.  Every    *)
(* broadcast carries the payload of the message it is made for, so the     *)
(* transactions that carry one payload are no more than the outbound       *)
(* messages of the timeline that have it.                                  *)
C36_OneBroadcastPerMessage ==
  \A k \in 1..Len(chain) :
    Cardinality({j \in 1..Len(chain) : chain[j].opReturn = chain[k].opReturn})
      <= Cardinality({m \in 1..Len(messages) :
                        /\ messages[m].direction = "outbound"
                        /\ messages[m].encrypted = chain[k].opReturn})

(* C37: isLoggedIn is true exactly when the session holds a secret; when   *)
(* it is false no secret, address list or timeline is in place.            *)
C37_LoggedInIffSecret ==
  /\ isLoggedIn <=> secret # Null
  /\ ~isLoggedIn => (addresses = <<>> /\ messages = <<>>)

(* C38: the step that completes a login leaves the timeline holding only   *)
(* the inbound messages decrypted from that login's scan, the pending list *)
(* empty and the seen-set equal to the ids of those messages, under the    *)
(* secret and the addresses of that login; a sendMessage that computes its *)
(* target in that state takes addresses[0], and so does the first send     *)
(* that is called and completes in the session.                            *)
C38_LoginReplacesState ==
  [][/\ \A i \in 1..Len(logins) :
          (logins[i].pc = "decrypt" /\ logins'[i].pc = "done")
            => /\ secret' = logins[i].normalised
               /\ addresses' = logins[i].derivedAddresses
               /\ messages' = sortMessages(DecryptAll(logins[i].normalised,
                                                       logins[i].inscriptions))
               /\ \A k \in 1..Len(messages') :
                    /\ messages'[k].direction = "inbound"
                    /\ \E j \in 1..Len(logins[i].inscriptions) :
                         logins[i].inscriptions[j].id = messages'[k].id
               /\ pendingOutbound' = <<>>
               /\ seenInscriptionIds' = TimelineIds(messages')
               /\ isLoggedIn'
               /\ targetAddressOf(addresses', outboundCount(messages')) = addresses'[1]
     /\ (Len(sendLog') >= 1 /\ sendLog'[1].epoch = epoch')
          => /\ sendLog'[1].index = 0
             /\ sendLog'[1].address = addresses'[1]]_vars

(* A session of the first secret sent a message; the login with the second *)
(* secret has replaced it: no outbound message and no instruction are      *)
(* left.                                                                   *)
C38_SecondLoginAfterSend ==
  /\ epoch = 2
  /\ secret = Secret2
  /\ addresses = Addresses2
  /\ uuid = 1
  /\ \E k \in 1..Len(sends) : sends[k].pc = "done"
  /\ pendingOutbound = <<>>
  /\ outboundCount(messages) = 0
  /\ seenInscriptionIds = TimelineIds(messages)

(* C39: a step that shortens the pending list, which only                  *)
(* acknowledgeOutbound does in a session that sends, removes exactly the   *)
(* instructions of one id, keeps the others in their order, and leaves the *)
(* timeline, the seen-set and the address list as they were, so that the   *)
(* address the next sendMessage selects is the same before and after.      *)
C39_AcknowledgeFrame ==
  [][Len(pendingOutbound') < Len(pendingOutbound)
       => /\ \E id \in PendingIds :
               /\ pendingOutbound' =
                    SelectSeq(pendingOutbound, LAMBDA item : item.id # id)
               /\ \A k \in 1..Len(pendingOutbound') : pendingOutbound'[k].id # id
          /\ messages' = messages
          /\ seenInscriptionIds' = seenInscriptionIds
          /\ addresses' = addresses
          /\ secret' = secret
          /\ targetAddressOf(addresses', outboundCount(messages'))
               = targetAddressOf(addresses, outboundCount(messages))]_vars

(* Two messages were sent and the first instruction acknowledged: both     *)
(* messages are in the timeline, the second went to the second mailbox and *)
(* the next goes to the third.                                             *)
C39_FirstAcknowledged ==
  /\ outboundCount(messages) = 2
  /\ Len(pendingOutbound) = 1
  /\ Len(sendLog) = 2
  /\ pendingOutbound[1].id = sendLog[2].id
  /\ sendLog[2].address = addresses[2]
  /\ targetAddressOf(addresses, outboundCount(messages)) = addresses[3]

=============================================================================
